---- MODULE Spec2Model ----
(***************************************************************************)
(* Model of the per-project record store of fieldlog (src/csv_manager.py). *)
(*                                                                         *)
(* Python str values are sequences of one-character strings, so that       *)
(* startswith, rsplit, sort order, str() and int() are computed the way    *)
(* the code computes them.  A Python value passed by a caller is a record  *)
(* [t, s, n]: a str (t = "str", text s) or an int (t = "int", number n).   *)
(* A dict is a function whose DOMAIN is its key set.                       *)
(***************************************************************************)
EXTENDS Integers, Sequences, FiniteSets, TLC

VARIABLES
    today,          \* datetime.now().strftime('%Y%m%d')
    BASE_STORAGE,   \* the module global: path of the storage root
    disk,           \* path of a root |-> [exists, entries]
    last,           \* the last call made and what it returned: kind names the
                    \*   status, out is the value returned by a call that
                    \*   returns rows, bytes or a list, errors the failures
                    \*   clear_all_projects reports, path the root passed
    log,            \* history: <<root, folder>> |-> key of a row |-> [first, byRun]:
                    \*   first: field |-> the first non-empty value meta gave it
                    \*   byRun: the fields whose value run_data wrote
    wrote,          \* history: project code |-> the <<root, folder>> pairs that
                    \*   _write_project wrote for it
    launcher,       \* the desktop launcher: the window (timer, enabled, closed),
                    \*   its _ServerThread runs, the server processes, and
                    \*   the lists _proc_box and _atexit_proc
    inflight        \* session |-> its call of append_or_update_project_run that
                    \*   runs beside the other session's: where it stands (pc),
                    \*   its arguments, its local rows, and what it returned

vars == <<today, BASE_STORAGE, disk, last, log, wrote, inflight, launcher>>

----------------------------------------------------------------------------
(* Bounds of the model *)

\* upsert_run is not called on a table that already holds MaxRows rows
MaxRows == 3

\* the same for the tables that next_run_number scans in SpecNext
MaxScan == 3

\* the launcher creates at most MaxStarts _ServerThread objects
MaxStarts == 2

----------------------------------------------------------------------------
(* Characters and strings *)

Digits == <<"0", "1", "2", "3", "4", "5", "6", "7", "8", "9">>

DigitSet == {Digits[i] : i \in 1..10}

\* Code point of a character (Python compares str by code point)
Ord(c) ==
    CASE c = " " -> 32
      [] c = "+" -> 43
      [] c = "-" -> 45
      [] c \in DigitSet -> 47 + (CHOOSE i \in 1..10 : Digits[i] = c)
      [] c = "P" -> 80
      [] c = "Q" -> 81
      [] c = "Z" -> 90
      [] c = "_" -> 95
      [] c = "x" -> 120

\* a < b in Python's str order
RECURSIVE StrLess(_, _)
StrLess(a, b) ==
    IF a = <<>> THEN b # <<>>
    ELSE IF b = <<>> THEN FALSE
    ELSE IF Head(a) = Head(b) THEN StrLess(Tail(a), Tail(b))
    ELSE Ord(Head(a)) < Ord(Head(b))

\* str.startswith
StartsWith(s, prefix) ==
    /\ Len(prefix) <= Len(s)
    /\ SubSeq(s, 1, Len(prefix)) = prefix

\* str.isdigit for the characters of the model
IsDigitStr(s) ==
    /\ s # <<>>
    /\ \A i \in 1..Len(s) : s[i] \in DigitSet

\* candidates.sort(); candidates[-1]
SortedLast(names) ==
    CHOOSE m \in names : \A e \in names : e = m \/ StrLess(e, m)

\* str(n) for an int n
RECURSIVE NatToStr(_)
NatToStr(n) ==
    IF n < 10 THEN <<Digits[n + 1]>>
    ELSE NatToStr(n \div 10) \o <<Digits[(n % 10) + 1]>>

IntToStr(n) == IF n < 0 THEN <<"-">> \o NatToStr(0 - n) ELSE NatToStr(n)

\* str.strip() of the blanks of the model
RECURSIVE LStrip(_)
LStrip(s) == IF s # <<>> /\ Head(s) = " " THEN LStrip(Tail(s)) ELSE s

RECURSIVE RStrip(_)
RStrip(s) ==
    IF s # <<>> /\ s[Len(s)] = " " THEN RStrip(SubSeq(s, 1, Len(s) - 1)) ELSE s

RECURSIVE DigitsValue(_, _)
DigitsValue(s, acc) ==
    IF s = <<>> THEN acc
    ELSE IF Head(s) = "_" THEN DigitsValue(Tail(s), acc)
    ELSE DigitsValue(Tail(s),
                     10 * acc + (CHOOSE i \in 1..10 : Digits[i] = Head(s)) - 1)

\* int(s) for a str s: [ok |-> FALSE] stands for ValueError.  Blanks around the
\* literal, one sign, and single underscores between digits are accepted.
PyIntOfStr(s) ==
    LET t      == RStrip(LStrip(s))
        signed == t # <<>> /\ Head(t) \in {"+", "-"}
        body   == IF signed THEN Tail(t) ELSE t
        wellformed ==
            /\ body # <<>>
            /\ \A i \in 1..Len(body) : body[i] \in DigitSet \cup {"_"}
            /\ body[1] # "_"
            /\ body[Len(body)] # "_"
            /\ \A i \in 1..(Len(body) - 1) : ~(body[i] = "_" /\ body[i + 1] = "_")
    IN  IF ~wellformed THEN [ok |-> FALSE, n |-> 0]
        ELSE [ok |-> TRUE,
              n  |-> IF signed /\ Head(t) = "-"
                     THEN 0 - DigitsValue(body, 0)
                     ELSE DigitsValue(body, 0)]

----------------------------------------------------------------------------
(* Python values *)

PyStr(s) == [t |-> "str", s |-> s, n |-> 0]

PyInt(n) == [t |-> "int", s |-> <<>>, n |-> n]

\* str(v); also what csv.DictWriter writes for the value v
Str(v) == IF v.t = "str" THEN v.s ELSE IntToStr(v.n)

\* bool(v): "" and 0 are falsy
Truthy(v) == IF v.t = "str" THEN v.s # <<>> ELSE v.n # 0

\* the element of a one-element set; { e(x) : x \in {v} } binds the local
\* variable x to the value v once, as an assignment in the code does
The(S) == CHOOSE x \in S : TRUE

\* dict.get(key, default)
Get(d, key, default) == IF key \in DOMAIN d THEN d[key] ELSE default

----------------------------------------------------------------------------
(* Storage: a root holds entries; an entry is a plain file or a directory   *)
(* that may hold jobs.csv; jobs.csv is a header line and data lines.        *)

PROJECT_HEADERS ==
    << "project_code", "client", "address", "project_description",
       "location_lat", "location_lon", "arcgis_link", "task_number",
       "attempt_number", "directory_name", "data_type", "asset_id",
       "asset_designation", "asset_type", "deployment_platform",
       "entry_point", "exit_point", "pipe_length", "date_start", "date_stop",
       "run_quality", "observation_summary", "other_comments" >>

HeaderSet == {PROJECT_HEADERS[i] : i \in 1..Len(PROJECT_HEADERS)}

EmptyDict == [k \in {} |-> k]

NoCsv == [header |-> <<>>, rows |-> <<>>]

PlainFile == [isdir |-> FALSE, hascsv |-> FALSE, csv |-> NoCsv]

EmptyDir == [isdir |-> TRUE, hascsv |-> FALSE, csv |-> NoCsv]

NoRoot == [exists |-> FALSE, entries |-> EmptyDict]

EmptyRoot == [exists |-> TRUE, entries |-> EmptyDict]

\* os.path.isdir(os.path.join(BASE_STORAGE, e))
IsDir(root, e) ==
    /\ root.exists
    /\ e \in DOMAIN root.entries
    /\ root.entries[e].isdir

Underscore == <<"_">>

\* _project_folder(project_code), with BASE_STORAGE holding root on the date day
ProjectFolder(root, project_code, day) ==
    LET prefix     == project_code \o Underscore
        candidates == {e \in DOMAIN root.entries :
                          StartsWith(e, prefix) /\ IsDir(root, e)}
    IN  IF root.exists /\ candidates # {}
        THEN SortedLast(candidates)
        ELSE project_code \o Underscore \o day

\* os.path.exists(project_csv_path(project_code))
CsvExists(root, project_code, day) ==
    LET folder == ProjectFolder(root, project_code, day)
    IN  IsDir(root, folder) /\ root.entries[folder].hascsv

\* csv.DictReader: the column each field name stands in (the last one of that
\* name), for the names of the header line
ColumnOf(header) ==
    [h \in {header[i] : i \in 1..Len(header)} |->
        CHOOSE i \in 1..Len(header) :
            /\ header[i] = h
            /\ \A j \in (i + 1)..Len(header) : header[j] # h]

\* {h: row.get(h, "") for h in PROJECT_HEADERS} for one data line
RowOf(col, line) ==
    [h \in HeaderSet |->
        PyStr(IF h \in DOMAIN col /\ col[h] <= Len(line) THEN line[col[h]] ELSE <<>>)]

\* _load_project: the rows of the project's table, in file order, as dicts
LoadProject(root, project_code, day) ==
    The({ IF ~(IsDir(root, folder) /\ root.entries[folder].hascsv) THEN <<>>
          ELSE The({ [i \in 1..Len(root.entries[folder].csv.rows) |->
                        RowOf(col, root.entries[folder].csv.rows[i])] :
                     col \in {ColumnOf(root.entries[folder].csv.header)} }) :
          folder \in {ProjectFolder(root, project_code, day)} })

\* writer.writerow({h: row.get(h, "") for h in PROJECT_HEADERS})
CsvLine(row) ==
    [i \in 1..Len(PROJECT_HEADERS) |->
        Str(Get(row, PROJECT_HEADERS[i], PyStr(<<>>)))]

\* the whole file _write_project writes for rows
CsvOf(rows) ==
    [header |-> PROJECT_HEADERS,
     rows   |-> [i \in 1..Len(rows) |-> CsvLine(rows[i])]]

\* os.makedirs(BASE_STORAGE/folder, exist_ok=True): ok is FALSE for the
\* FileExistsError raised when the name is taken by a plain file
MakeDirs(root, folder) ==
    IF root.exists /\ folder \in DOMAIN root.entries
    THEN [ok |-> root.entries[folder].isdir, root |-> root]
    ELSE [ok   |-> TRUE,
          root |-> [exists  |-> TRUE,
                    entries |-> (folder :> EmptyDir) @@ root.entries]]

\* the file written into the folder that os.makedirs made
WriteInto(made, folder, rows) ==
    IF ~made.ok THEN [ok |-> FALSE, root |-> made.root, folder |-> folder]
    ELSE [ok     |-> TRUE,
          folder |-> folder,
          root   |-> [made.root EXCEPT !.entries[folder] =
                        [isdir |-> TRUE, hascsv |-> TRUE, csv |-> CsvOf(rows)]]]

\* _write_project(project_code, rows): the root afterwards, and the folder written
WriteProject(root, project_code, day, rows) ==
    The({ The({ WriteInto(made, folder, rows) : made \in {MakeDirs(root, folder)} }) :
          folder \in {ProjectFolder(root, project_code, day)} })

----------------------------------------------------------------------------
(* The public API, as functions of the storage root and the date.  Each     *)
(* returns the root afterwards and what the call returned: kind names the   *)
(* status string, task/run/n are the values formatted into it.              *)

Key(row) == <<Str(Get(row, "task_number", PyStr(<<>>))),
              Str(Get(row, "attempt_number", PyStr(<<>>)))>>

\* the (task_str, run_str) pair append_or_update_project_run looks up
KeyOf(run_data) == Key(run_data)

Return(kind, task, run, n, folder, root) ==
    [kind |-> kind, task |-> task, run |-> run, n |-> n,
     folder |-> folder, root |-> root]

\* setup_project without the test for an existing jobs.csv
SetupIn_AlwaysWrite(made, folder_name, project_code, day) ==
    IF ~made.ok
    THEN Return("error", <<>>, <<>>, 0, folder_name, made.root)
    ELSE The({ Return(IF w.ok THEN "created" ELSE "error",
                      <<>>, <<>>, 0, folder_name, w.root) :
               w \in {WriteProject(made.root, project_code, day, <<>>)} })

\* setup_project after os.makedirs(folder_path, exist_ok=True)
SetupIn(made, folder_name, project_code, day) ==
    IF ~made.ok
    THEN Return("error", <<>>, <<>>, 0, folder_name, made.root)
    ELSE IF CsvExists(made.root, project_code, day)
    THEN Return("opened", <<>>, <<>>, 0, folder_name, made.root)
    ELSE The({ Return(IF w.ok THEN "created" ELSE "error",
                      <<>>, <<>>, 0, folder_name, w.root) :
               w \in {WriteProject(made.root, project_code, day, <<>>)} })

\* setup_project(project_code, meta)
SetupProject(root, project_code, day) ==
    The({ The({ SetupIn(made, folder_name, project_code, day) :
                made \in {MakeDirs(root, folder_name)} }) :
          folder_name \in {ProjectFolder(root, project_code, day)} })

\* the lookup comparing task_number alone
MatchIndex_TaskOnly(rows, run_data) ==
    LET hits == {i \in 1..Len(rows) :
                    Str(rows[i]["task_number"]) = Key(run_data)[1]}
    IN  IF hits = {} THEN 0 ELSE CHOOSE i \in hits : \A j \in hits : i <= j

\* the lookup comparing the numbers the two texts stand for
MatchIndex_ByNumber(rows, run_data) ==
    LET hits == {i \in 1..Len(rows) :
                    /\ PyIntOfStr(Str(rows[i]["task_number"]))
                          = PyIntOfStr(KeyOf(run_data)[1])
                    /\ PyIntOfStr(Str(rows[i]["attempt_number"]))
                          = PyIntOfStr(KeyOf(run_data)[2])}
    IN  IF hits = {} THEN 0 ELSE CHOOSE i \in hits : \A j \in hits : i <= j

\* the index of the first row the loop of append_or_update_project_run matches
\* (0 when it matches none)
MatchIndex(rows, run_data) ==
    LET hits == {i \in 1..Len(rows) :
                    /\ Str(rows[i]["task_number"]) = KeyOf(run_data)[1]
                    /\ Str(rows[i]["attempt_number"]) = KeyOf(run_data)[2]}
    IN  IF hits = {} THEN 0 ELSE CHOOSE i \in hits : \A j \in hits : i <= j

\* the update path with run_data filling only the blanks of the row
UpdatedRow_RunFillsBlanks(row, meta, run_data) ==
    [h \in HeaderSet |->
        IF h \in DOMAIN meta /\ ~Truthy(Get(run_data, h, PyStr(<<>>)))
        THEN meta[h]
        ELSE IF h \in DOMAIN run_data /\ ~Truthy(row[h]) THEN run_data[h]
        ELSE row[h]]

\* the update path with meta filling only the blanks of the row
UpdatedRow_MetaFillsBlanks(row, meta, run_data) ==
    [h \in HeaderSet |->
        IF h \in DOMAIN run_data /\ Truthy(run_data[h]) THEN run_data[h]
        ELSE IF h \in DOMAIN meta /\ ~Truthy(row[h]) THEN meta[h]
        ELSE IF h \in DOMAIN run_data THEN run_data[h]
        ELSE row[h]]

\* the update path with meta written whatever run_data gives
UpdatedRow_MetaFirst(row, meta, run_data) ==
    [h \in HeaderSet |->
        IF h \in DOMAIN meta THEN meta[h]
        ELSE IF h \in DOMAIN run_data THEN run_data[h]
        ELSE row[h]]

\* the update path: run_data overwrites, then meta where run_data gives nothing
UpdatedRow(row, meta, run_data) ==
    [h \in HeaderSet |->
        IF h \in DOMAIN meta /\ ~Truthy(Get(run_data, h, PyStr(<<>>)))
        THEN meta[h]
        ELSE IF h \in DOMAIN run_data THEN run_data[h]
        ELSE row[h]]

\* the append path with meta applied after run_data
NewRow_MetaLast(project_code, meta, run_data) ==
    [h \in HeaderSet \cup DOMAIN meta \cup DOMAIN run_data |->
        IF h \in DOMAIN meta THEN meta[h]
        ELSE IF h \in DOMAIN run_data THEN run_data[h]
        ELSE IF h = "project_code" THEN PyStr(project_code)
        ELSE PyStr(<<>>)]

\* the append path: defaults, then project_code, then meta, then run_data
NewRow(project_code, meta, run_data) ==
    [h \in HeaderSet \cup DOMAIN meta \cup DOMAIN run_data |->
        IF h \in DOMAIN run_data THEN run_data[h]
        ELSE IF h \in DOMAIN meta THEN meta[h]
        ELSE IF h = "project_code" THEN PyStr(project_code)
        ELSE PyStr(<<>>)]

\* the update path with the updated row moved behind the others
UpsertRows_MoveToEnd(rows, i, project_code, meta, run_data) ==
    IF i # 0
    THEN Append(SubSeq(rows, 1, i - 1) \o SubSeq(rows, i + 1, Len(rows)),
                UpdatedRow(rows[i], meta, run_data))
    ELSE Append(rows, NewRow(project_code, meta, run_data))

\* the rows handed to _write_project with a new row appended whether or not
\* a row matched
UpsertRows_AlwaysAppend(rows, i, project_code, meta, run_data) ==
    Append(rows, NewRow(project_code, meta, run_data))

\* the rows append_or_update_project_run hands to _write_project, i being the
\* index of the matching row
UpsertRows(rows, i, project_code, meta, run_data) ==
    IF i # 0
    THEN [rows EXCEPT ![i] = UpdatedRow(rows[i], meta, run_data)]
    ELSE Append(rows, NewRow(project_code, meta, run_data))

\* append_or_update_project_run after rows = _load_project(project_code)
UpsertInto(rows, i, root, project_code, day, meta, run_data) ==
    The({ Return(IF ~w.ok THEN "error" ELSE IF i # 0 THEN "updated" ELSE "added",
                 KeyOf(run_data)[1], KeyOf(run_data)[2], 0, w.folder, w.root) :
          w \in {WriteProject(root, project_code, day,
                              UpsertRows(rows, i, project_code, meta, run_data))} })

\* append_or_update_project_run(project_code, meta, run_data)
AppendOrUpdateProjectRun(root, project_code, day, meta, run_data) ==
    The({ The({ UpsertInto(rows, i, root, project_code, day, meta, run_data) :
                i \in {MatchIndex(rows, run_data)} }) :
          rows \in {LoadProject(root, project_code, day)} })

\* any(r["task_number"] == _task_str and r["attempt_number"] == _run_str
\*     for r in _rows) in the form handler
FormMatch(rows, task_str, run_str) ==
    \E i \in 1..Len(rows) :
        /\ Str(rows[i]["task_number"]) = task_str
        /\ Str(rows[i]["attempt_number"]) = run_str

\* the run_data of the form handler: the two parts of the key as str(int(...)),
\* and the other fields of the form
FormRunData(task_number, attempt_number, fields) ==
    [task_number    |-> PyStr(IntToStr(task_number)),
     attempt_number |-> PyStr(IntToStr(attempt_number))] @@ fields

\* the form handler, "Submit New Entry" or "Update Entry" pressed: what the
\* calls it makes return ("code_required" and "refused" for its own two
\* errors) and the root afterwards
SubmitForm(root, day, update_clicked, project_code, task_number, attempt_number, meta, fields) ==
    IF project_code = <<>>
    THEN Return("code_required", <<>>, <<>>, 0, <<>>, root)
    ELSE IF /\ update_clicked
            /\ ~FormMatch(LoadProject(root, project_code, day),
                          IntToStr(task_number), IntToStr(attempt_number))
    THEN Return("refused", IntToStr(task_number), IntToStr(attempt_number),
                0, <<>>, root)
    ELSE The({ IF s.kind = "error" THEN s
               ELSE AppendOrUpdateProjectRun(
                        s.root, project_code, day, meta,
                        FormRunData(task_number, attempt_number, fields)) :
               s \in {SetupProject(root, project_code, day)} })

\* the loop of next_run_number without the test of task_number
ScanRow_AnyTask(max_run, row, task_str) ==
    The({ IF parsed.ok /\ parsed.n > max_run THEN parsed.n ELSE max_run :
          parsed \in {PyIntOfStr(Str(row["attempt_number"]))} })

\* one turn of the loop of next_run_number: max_run after the row
ScanRow(max_run, row, task_str) ==
    The({ IF /\ Str(row["task_number"]) = task_str
             /\ parsed.ok
             /\ parsed.n > max_run
          THEN parsed.n
          ELSE max_run :
          parsed \in {PyIntOfStr(Str(row["attempt_number"]))} })

\* the loop of next_run_number: max_run after the rows 1..i
RECURSIVE MaxRun(_, _, _)
MaxRun(rows, task_str, i) ==
    IF i = 0 THEN 0
    ELSE The({ ScanRow(before, rows[i], task_str) :
               before \in {MaxRun(rows, task_str, i - 1)} })

\* next_run_number as the number of rows of the task plus one
NextRunNumber_CountRows(root, day, task, project_code) ==
    The({ Cardinality({i \in 1..Len(rows) :
                          Str(rows[i]["task_number"]) = Str(task)}) + 1 :
          rows \in {IF project_code # <<>>
                    THEN LoadProject(root, project_code, day)
                    ELSE <<>>} })

\* next_run_number(task, project_code)
NextRunNumber(root, day, task, project_code) ==
    The({ MaxRun(rows, Str(task), Len(rows)) + 1 :
          rows \in {IF project_code # <<>>
                    THEN LoadProject(root, project_code, day)
                    ELSE <<>>} })

\* delete_last_entry popping the first row, rows.pop(0)
DeleteFrom_First(rows, folder, root, project_code, day) ==
    IF rows = <<>>
    THEN Return("no_entries", <<>>, <<>>, 0, folder, root)
    ELSE The({ Return(IF w.ok THEN "deleted" ELSE "error",
                      Key(rows[1])[1], Key(rows[1])[2], 0, folder, w.root) :
               w \in {WriteProject(root, project_code, day, Tail(rows))} })

\* delete_last_entry after rows = _load_project(project_code)
DeleteFrom(rows, folder, root, project_code, day) ==
    IF rows = <<>>
    THEN Return("no_entries", <<>>, <<>>, 0, folder, root)
    ELSE The({ Return(IF w.ok THEN "deleted" ELSE "error",
                      Key(rows[Len(rows)])[1], Key(rows[Len(rows)])[2],
                      0, folder, w.root) :
               w \in {WriteProject(root, project_code, day,
                                   SubSeq(rows, 1, Len(rows) - 1))} })

\* delete_last_entry(project_code)
DeleteLastEntry(root, project_code, day) ==
    The({ DeleteFrom(rows, ProjectFolder(root, project_code, day),
                     root, project_code, day) :
          rows \in {LoadProject(root, project_code, day)} })

\* clear_project_csv after rows = _load_project(project_code)
ClearFrom(rows, folder, root, project_code, day) ==
    IF rows = <<>>
    THEN Return("already_empty", <<>>, <<>>, 0, folder, root)
    ELSE The({ Return(IF w.ok THEN "cleared" ELSE "error",
                      <<>>, <<>>, Len(rows), folder, w.root) :
               w \in {WriteProject(root, project_code, day, <<>>)} })

\* clear_project_csv(project_code)
ClearProjectCsv(root, project_code, day) ==
    The({ ClearFrom(rows, ProjectFolder(root, project_code, day),
                    root, project_code, day) :
          rows \in {LoadProject(root, project_code, day)} })

\* what shutil.rmtree(path) can do to one directory: remove it; raise with
\* the directory as it was; raise after jobs.csv was unlinked
RmOutcomes == {"removed", "kept", "emptied"}

\* the immediate subdirectories of the root
DirsOf(root) == {e \in DOMAIN root.entries : IsDir(root, e)}

\* the entries after the loop of clear_all_projects, failed being the
\* directories whose rmtree raised
AfterRmtree(root, rm, failed) ==
    [e \in DOMAIN root.entries \ (DirsOf(root) \ failed) |->
        IF e \in failed /\ rm[e] = "emptied" THEN EmptyDir ELSE root.entries[e]]

\* clear_all_projects counting the directories it tried
ClearAllIn_CountTried(root, rm, failed) ==
    [kind   |-> IF failed = {} THEN "all_deleted" ELSE "cleared_with_errors",
     n      |-> Cardinality(DirsOf(root)),
     errors |-> failed,
     root   |-> [root EXCEPT !.entries = AfterRmtree(root, rm, failed)]]

\* clear_all_projects after the test of os.path.isdir(BASE_STORAGE)
ClearAllIn(root, rm, failed) ==
    [kind   |-> IF failed = {} THEN "all_deleted" ELSE "cleared_with_errors",
     n      |-> Cardinality(DirsOf(root) \ failed),
     errors |-> failed,
     root   |-> [root EXCEPT !.entries = AfterRmtree(root, rm, failed)]]

\* clear_all_projects(), rm[e] being what shutil.rmtree does to directory e.
\* errors holds the directories whose rmtree raised: str(e) of the exception
\* names the path.
ClearAllProjects(root, rm) ==
    IF ~root.exists
    THEN [kind |-> "no_data", n |-> 0, errors |-> {}, root |-> root]
    ELSE ClearAllIn(root, rm, {e \in DirsOf(root) : rm[e] # "removed"})

\* set_storage_path that also copies the data of the old root to the new one
SetStoragePath_Copy(d, base, path) ==
    [base |-> path, disk |-> [d EXCEPT ![path] = d[base]]]

\* set_storage_path(path): the global and the disks afterwards
SetStoragePath(d, base, path) ==
    [base |-> path, disk |-> d]

\* the index of the last "_" of a name, 0 when it has none
LastUnderscore(e) ==
    IF \A i \in 1..Len(e) : e[i] # "_" THEN 0
    ELSE CHOOSE i \in 1..Len(e) :
            /\ e[i] = "_"
            /\ \A j \in (i + 1)..Len(e) : e[j] # "_"

\* entry.rsplit("_", 1)
RSplit(e) ==
    The({ IF i = 0 THEN <<e>>
          ELSE <<SubSeq(e, 1, i - 1), SubSeq(e, i + 1, Len(e))>> :
          i \in {LastUnderscore(e)} })

\* len(parts) == 2 and len(parts[1]) == 8 and parts[1].isdigit()
IsDated(parts) ==
    /\ Len(parts) = 2
    /\ Len(parts[2]) = 8
    /\ IsDigitStr(parts[2])

\* the codes collected without the test of os.path.isdir
CodesOf_AnyEntry(root) ==
    {RSplit(e)[1] : e \in {d \in DOMAIN root.entries : IsDated(RSplit(d))}}

\* the set codes after the loop of list_existing_projects
CodesOf(root) ==
    {RSplit(e)[1] : e \in {d \in DirsOf(root) : IsDated(RSplit(d))}}

\* sorted(codes)
RECURSIVE Sorted(_)
Sorted(codes) ==
    IF codes = {} THEN <<>>
    ELSE The({ <<least>> \o Sorted(codes \ {least}) :
               least \in {CHOOSE m \in codes :
                            \A c \in codes : c = m \/ StrLess(m, c)} })

\* list_existing_projects()
ListExistingProjects(root) ==
    IF ~root.exists THEN <<>> ELSE Sorted(CodesOf(root))

\* the orders in which os.listdir may return the entries of the root
Listings(root) ==
    IF ~root.exists THEN {<<>>}
    ELSE {l \in [1..Cardinality(DOMAIN root.entries) -> DOMAIN root.entries] :
            \A i, j \in DOMAIN l : i # j => l[i] # l[j]}

\* the place of e in an ascending list
InsertSorted(sorted, e) ==
    LET k == Cardinality({i \in 1..Len(sorted) : ~StrLess(e, sorted[i])})
    IN  SubSeq(sorted, 1, k) \o <<e>> \o SubSeq(sorted, k + 1, Len(sorted))

\* candidates left in the order of the listing
SortList_Unsorted(candidates) ==
    candidates

\* candidates.sort()
RECURSIVE SortList(_)
SortList(candidates) ==
    IF candidates = <<>> THEN <<>>
    ELSE InsertSorted(SortList(Tail(candidates)), Head(candidates))

\* _project_folder(project_code) when os.listdir returns the entries of the
\* root in the order listing
ListedFolder(root, project_code, day, listing) ==
    LET prefix  == project_code \o Underscore
        Keep(e) == StartsWith(e, prefix) /\ IsDir(root, e)
    IN  The({ IF root.exists /\ candidates # <<>>
              THEN The({ sorted[Len(sorted)] : sorted \in {SortList(candidates)} })
              ELSE project_code \o Underscore \o day :
              candidates \in {SelectSeq(listing, Keep)} })

\* get_project_folder(project_code)
GetProjectFolder(root, project_code, day, listing) ==
    ListedFolder(root, project_code, day, listing)

\* project_csv_path(project_code): BASE_STORAGE/<folder>/jobs.csv
ProjectCsvPath(base, root, project_code, day, listing) ==
    [base |-> base, folder |-> ListedFolder(root, project_code, day, listing),
     file |-> "jobs.csv"]

----------------------------------------------------------------------------
(* The bytes of jobs.csv.  A buffer is a sequence of characters; a field     *)
(* name of the schema, which holds no character that csv treats specially,  *)
(* stands in a buffer as one symbol.                                        *)

Comma == ","

Quote == "\""

CR == "\r"

LF == "\n"

\* csv.writer with the quotes of a quoted field left single
CsvField_SingleQuotes(text) ==
    IF \E i \in 1..Len(text) : text[i] \in {Comma, Quote, CR, LF}
    THEN <<Quote>> \o text \o <<Quote>>
    ELSE text

\* a quoted field's text with each quote written twice
RECURSIVE Doubled(_)
Doubled(text) ==
    IF text = <<>> THEN <<>>
    ELSE (IF Head(text) = Quote THEN <<Quote, Quote>> ELSE <<Head(text)>>)
            \o Doubled(Tail(text))

\* csv.writer (excel dialect, QUOTE_MINIMAL): one field as it is written
CsvField(text) ==
    IF \E i \in 1..Len(text) : text[i] \in {Comma, Quote, CR, LF}
    THEN <<Quote>> \o Doubled(text) \o <<Quote>>
    ELSE text

\* csv.writer: the fields i..Len(fields) of a line, and the line terminator
RECURSIVE CsvRecord(_, _)
CsvRecord(fields, i) ==
    IF i > Len(fields) THEN <<CR, LF>>
    ELSE (IF i > 1 THEN <<Comma>> ELSE <<>>)
            \o CsvField(fields[i]) \o CsvRecord(fields, i + 1)

RECURSIVE CsvRecords(_, _)
CsvRecords(lines, i) ==
    IF i > Len(lines) THEN <<>>
    ELSE CsvRecord(lines[i], 1) \o CsvRecords(lines, i + 1)

\* the bytes of a file that holds the header line and the data lines of csv,
\* as writer.writeheader() and writer.writerow() wrote them; no bytes when
\* not even the header line was written
FileBytes(csv) ==
    IF csv.header = <<>> THEN <<>>
    ELSE CsvRecord([i \in 1..Len(csv.header) |-> <<csv.header[i]>>], 1)
            \o CsvRecords(csv.rows, 1)

\* get_project_csv_bytes(project_code)
GetProjectCsvBytes(root, project_code, day) ==
    The({ IF IsDir(root, folder) /\ root.entries[folder].hascsv
          THEN FileBytes(root.entries[folder].csv)
          ELSE FileBytes(CsvOf(<<>>)) :
          folder \in {ProjectFolder(root, project_code, day)} })

\* csv.reader: the state of the parser; records holds the finished records
ParserStart ==
    [mode |-> "start_record", field |-> <<>>, record |-> <<>>, records |-> <<>>]

\* csv.reader: parse_save_field
SaveField(st) ==
    [st EXCEPT !.record = Append(@, st.field), !.field = <<>>]

\* csv.reader: the record is returned; csv.DictReader skips a record without
\* fields (a blank line)
EndRecord(st) ==
    [mode    |-> "start_record",
     field   |-> <<>>,
     record  |-> <<>>,
     records |-> IF st.record = <<>> THEN st.records
                 ELSE Append(st.records, st.record)]

\* the end of a line: "\n", "\r", or "\r\n"
LineEnd(st, c) ==
    IF c = CR THEN [st EXCEPT !.mode = "after_cr"] ELSE EndRecord(st)

\* csv.reader: parse_process_char for one character of a line
ParseOpen(st, c) ==
    CASE st.mode \in {"start_record", "start_field"} ->
            IF c \in {CR, LF}
            THEN LineEnd(IF st.mode = "start_record" THEN st ELSE SaveField(st), c)
            ELSE IF c = Quote THEN [st EXCEPT !.mode = "in_quoted"]
            ELSE IF c = Comma THEN [SaveField(st) EXCEPT !.mode = "start_field"]
            ELSE [st EXCEPT !.mode = "in_field", !.field = <<c>>]
      [] st.mode = "in_field" ->
            IF c \in {CR, LF} THEN LineEnd(SaveField(st), c)
            ELSE IF c = Comma THEN [SaveField(st) EXCEPT !.mode = "start_field"]
            ELSE [st EXCEPT !.field = Append(@, c)]
      [] st.mode = "in_quoted" ->
            IF c = Quote THEN [st EXCEPT !.mode = "quote_in_quoted"]
            ELSE [st EXCEPT !.field = Append(@, c)]
      [] st.mode = "quote_in_quoted" ->
            IF c = Quote
            THEN [st EXCEPT !.mode = "in_quoted", !.field = Append(@, c)]
            ELSE IF c = Comma THEN [SaveField(st) EXCEPT !.mode = "start_field"]
            ELSE IF c \in {CR, LF} THEN LineEnd(SaveField(st), c)
            ELSE [st EXCEPT !.mode = "in_field", !.field = Append(@, c)]

\* one character of the text: after "\r" a "\n" belongs to the same line end
ParseChar(st, c) ==
    IF st.mode # "after_cr" THEN ParseOpen(st, c)
    ELSE IF c = LF THEN EndRecord(st)
    ELSE ParseOpen(EndRecord(st), c)

\* the parser after the characters lo..hi, read in order (the range is
\* halved so that the evaluation nests no deeper than its logarithm)
RECURSIVE ParseFrom(_, _, _, _)
ParseFrom(buf, lo, hi, st) ==
    IF lo > hi THEN st
    ELSE IF lo = hi THEN ParseChar(st, buf[lo])
    ELSE The({ The({ ParseFrom(buf, mid + 1, hi, left) :
                     left \in {ParseFrom(buf, lo, mid, st)} }) :
               mid \in {(lo + hi) \div 2} })

\* the end of the text: a record that was begun is returned
ParseEnd(st) ==
    IF st.mode \in {"start_record", "after_cr"} THEN EndRecord(st).records
    ELSE EndRecord(SaveField(st)).records

\* list(csv.reader(text)) without the blank lines
ParseCsv(buf) == ParseEnd(ParseFrom(buf, 1, Len(buf), ParserStart))

\* the name a field of the header line spells
NameOf(field) == IF Len(field) = 1 THEN field[1] ELSE ""

\* csv.DictReader over the text, and the dicts _load_project makes of its rows
RowsFromBytes(buf) ==
    The({ IF records = <<>> THEN <<>>
          ELSE The({ [i \in 1..(Len(records) - 1) |-> RowOf(col, records[i + 1])] :
                     col \in {ColumnOf([j \in 1..Len(records[1]) |->
                                            NameOf(records[1][j])])} }) :
          records \in {ParseCsv(buf)} })

\* the file when _write_project is interrupted after open(path, "w") and
\* `lines` lines: nothing, or the header line and the first lines - 1 rows
CutCsv(rows, lines) ==
    IF lines = 0 THEN NoCsv
    ELSE [header |-> PROJECT_HEADERS,
          rows   |-> [i \in 1..(lines - 1) |-> CsvLine(rows[i])]]

\* _write_project(project_code, rows) interrupted after `lines` lines: the
\* root it leaves; the exception reaches the caller
WriteProjectCut(root, project_code, day, rows, lines) ==
    The({ The({ IF ~made.ok
                THEN Return("error", <<>>, <<>>, 0, folder, made.root)
                ELSE Return("error", <<>>, <<>>, 0, folder,
                            [made.root EXCEPT !.entries[folder] =
                                [isdir |-> TRUE, hascsv |-> TRUE,
                                 csv |-> CutCsv(rows, lines)]]) :
                made \in {MakeDirs(root, folder)} }) :
          folder \in {ProjectFolder(root, project_code, day)} })

\* the rows append_or_update_project_run is about to write
UpsertTarget(root, project_code, day, meta, run_data) ==
    The({ UpsertRows(rows, MatchIndex(rows, run_data), project_code, meta, run_data) :
          rows \in {LoadProject(root, project_code, day)} })

\* the rows delete_last_entry is about to write
DeleteTarget(root, project_code, day) ==
    The({ SubSeq(rows, 1, Len(rows) - 1) :
          rows \in {LoadProject(root, project_code, day)} })

\* the rows the write of a call works on when it loads the table anew
LocalRows_Reloaded(call, root, day) ==
    LoadProject(root, call.code, day)

\* the local variable rows of a call at its write: what line 155 loaded
LocalRows(call, root, day) ==
    call.rows

----------------------------------------------------------------------------
(* The desktop launcher: FieldLogWindow, the runs of _ServerThread and the   *)
(* server processes they spawn.  A process is "starting" from Popen until    *)
(* it listens on PORT, then "listening", and "dead" once it has exited.      *)

\* the launcher after FieldLogWindow.__init__: no process, no thread, the
\* Start button enabled, QTimer.singleShot(200, self._start_server) pending
WindowCreated ==
    [timer |-> TRUE, enabled |-> TRUE, closed |-> FALSE, exited |-> FALSE,
     threads |-> <<>>, procs |-> <<>>, proc_box |-> <<>>, atexit_proc |-> <<>>,
     event |-> "init"]

\* proc.poll() is None
Alive(w, proc) == w.procs[proc] # "dead"

\* _kill_proc(proc) for the process held in box; proc is None for an empty box
KillProc(w, box) ==
    IF box = <<>> THEN w ELSE [w EXCEPT !.procs[box[1]] = "dead"]

\* _kill_port(): whatever listens on PORT is killed
KillPort(w) ==
    [w EXCEPT !.procs = [proc \in DOMAIN w.procs |->
                            IF w.procs[proc] = "listening" THEN "dead"
                            ELSE w.procs[proc]]]

\* FieldLogWindow._start_server
StartServer(w) ==
    [w EXCEPT !.enabled = FALSE,
              !.threads = Append(@, [pc |-> "created", proc |-> 0]),
              !.event   = "start_server"]

\* FieldLogWindow._stop_server
StopServer(w) ==
    [KillProc(w, w.proc_box) EXCEPT !.proc_box = <<>>, !.atexit_proc = <<>>,
                                    !.enabled = TRUE, !.event = "stop_server"]

\* FieldLogWindow._toggle_server
ToggleServer(w) ==
    IF w.proc_box # <<>> /\ Alive(w, w.proc_box[1])
    THEN StopServer(w)
    ELSE StartServer(w)

----------------------------------------------------------------------------
(* State, history and the calls as actions *)

DefaultRoot == "data"

RootPaths == {DefaultRoot}

\* a second directory, outside the first, that the folder picker can choose
OtherRoot == "other"

AllRootPaths == {DefaultRoot, OtherRoot}

P == <<"P">>

PZ == <<"P", "_", "Z">>

ProjectCodes == {P, PZ}

D1 == <<"2", "0", "2", "4", "0", "1", "0", "1">>

D2 == <<"2", "0", "2", "4", "0", "1", "0", "2">>

\* the storage root the calls work on
Root == disk[BASE_STORAGE]

\* two sessions of the app (Streamlit runs the script of each in a thread of
\* its own)
Procs == {1, 2}

\* a session that runs no call
Idle ==
    [pc |-> "idle", code |-> <<>>, meta |-> EmptyDict, run_data |-> EmptyDict,
     rows |-> <<>>, kind |-> ""]

\* a call of the API: its arguments and what it returned
Called(op, code, meta, run_data, r) ==
    [op |-> op, code |-> code, meta |-> meta, run_data |-> run_data,
     kind |-> r.kind, task |-> r.task, run |-> r.run, n |-> r.n,
     folder |-> r.folder, out |-> <<>>, errors |-> {}, path |-> ""]

NoCall(op) ==
    [op |-> op, code |-> <<>>, meta |-> EmptyDict, run_data |-> EmptyDict,
     kind |-> "", task |-> <<>>, run |-> <<>>, n |-> 0, folder |-> <<>>,
     out |-> <<>>, errors |-> {}, path |-> ""]

\* history of one table: key |-> calls
LogAt(folder) ==
    IF <<BASE_STORAGE, folder>> \in DOMAIN log
    THEN log[<<BASE_STORAGE, folder>>]
    ELSE EmptyDict

LogPut(folder, entries) ==
    IF entries = EmptyDict
    THEN [f \in DOMAIN log \ {<<BASE_STORAGE, folder>>} |-> log[f]]
    ELSE (<<BASE_STORAGE, folder>> :> entries) @@ log

\* the first non-empty value meta supplied for each field while run_data left it blank
FirstMeta(first, meta, run_data) ==
    LET fresh == {h \in DOMAIN meta \ DOMAIN first :
                    /\ ~Truthy(Get(run_data, h, PyStr(<<>>)))
                    /\ Str(meta[h]) # <<>>}
    IN  [h \in DOMAIN first \cup fresh |->
            IF h \in DOMAIN first THEN first[h] ELSE Str(meta[h])]

\* the fields of a row whose value run_data wrote
ByRun(byRun, seen, meta, run_data) ==
    {h \in HeaderSet :
        IF ~seen THEN h \in DOMAIN run_data
        ELSE IF h \in DOMAIN meta /\ ~Truthy(Get(run_data, h, PyStr(<<>>)))
        THEN FALSE
        ELSE h \in DOMAIN run_data \/ h \in byRun}

\* the history entry of an upsert call
Logged(folder, meta, run_data) ==
    LET k    == KeyOf(run_data)
        old  == LogAt(folder)
        seen == k \in DOMAIN old
    IN  (k :> [first |-> FirstMeta(IF seen THEN old[k].first ELSE EmptyDict,
                                   meta, run_data),
               byRun |-> ByRun(IF seen THEN old[k].byRun ELSE {},
                               seen, meta, run_data)]) @@ old

Wrote(code, r) ==
    IF r.root = Root THEN wrote
    ELSE [wrote EXCEPT ![code] = @ \cup {<<BASE_STORAGE, r.folder>>}]

DoSetupProject(code, meta) ==
    \E r \in {SetupProject(Root, code, today)} :
        /\ disk' = [disk EXCEPT ![BASE_STORAGE] = r.root]
        /\ last' = Called("setup_project", code, EmptyDict, EmptyDict, r)
        /\ wrote' = Wrote(code, r)
        /\ UNCHANGED <<launcher, inflight, today, BASE_STORAGE, log>>

DoAppendOrUpdate(code, meta, run_data) ==
    \E r \in {AppendOrUpdateProjectRun(Root, code, today, meta, run_data)} :
        /\ r.kind = "added" => Len(r.root.entries[r.folder].csv.rows) <= MaxRows
        /\ disk' = [disk EXCEPT ![BASE_STORAGE] = r.root]
        /\ last' = Called("append_or_update_project_run", code, meta, run_data, r)
        /\ log' = IF r.kind = "error" THEN log
                  ELSE LogPut(r.folder, Logged(r.folder, meta, run_data))
        /\ wrote' = Wrote(code, r)
        /\ UNCHANGED <<launcher, inflight, today, BASE_STORAGE>>

DoNextRunNumber(task, code) ==
    /\ last' = [NoCall("next_run_number") EXCEPT
                    !.code = code, !.task = Str(task),
                    !.n = NextRunNumber(Root, today, task, code)]
    /\ UNCHANGED <<launcher, inflight, today, BASE_STORAGE, disk, log, wrote>>

DoDeleteLastEntry(code) ==
    \E r \in {DeleteLastEntry(Root, code, today)} :
        /\ disk' = [disk EXCEPT ![BASE_STORAGE] = r.root]
        /\ last' = Called("delete_last_entry", code, EmptyDict, EmptyDict, r)
        /\ log' = IF r.kind # "deleted" THEN log
                  ELSE LogPut(r.folder,
                              [k \in DOMAIN LogAt(r.folder) \ {<<r.task, r.run>>} |->
                                  LogAt(r.folder)[k]])
        /\ wrote' = Wrote(code, r)
        /\ UNCHANGED <<launcher, inflight, today, BASE_STORAGE>>

DoClearProjectCsv(code) ==
    \E r \in {ClearProjectCsv(Root, code, today)} :
        /\ disk' = [disk EXCEPT ![BASE_STORAGE] = r.root]
        /\ last' = Called("clear_project_csv", code, EmptyDict, EmptyDict, r)
        /\ log' = IF r.kind # "cleared" THEN log ELSE LogPut(r.folder, EmptyDict)
        /\ wrote' = Wrote(code, r)
        /\ UNCHANGED <<launcher, inflight, today, BASE_STORAGE>>

DoClearAllProjects(rm) ==
    \E r \in {ClearAllProjects(Root, rm)} :
        /\ disk' = [disk EXCEPT ![BASE_STORAGE] = r.root]
        /\ last' = [NoCall("clear_all_projects") EXCEPT
                        !.kind = r.kind, !.n = r.n, !.errors = r.errors]
        /\ log' = [f \in {g \in DOMAIN log :
                            \/ g[1] # BASE_STORAGE
                            \/ /\ g[2] \in DOMAIN r.root.entries
                               /\ r.root.entries[g[2]].hascsv} |-> log[f]]
        /\ UNCHANGED <<launcher, inflight, today, BASE_STORAGE, wrote>>

DoSetStoragePath(path) ==
    \E r \in {SetStoragePath(disk, BASE_STORAGE, path)} :
        /\ BASE_STORAGE' = r.base
        /\ disk' = r.disk
        /\ last' = [NoCall("set_storage_path") EXCEPT !.path = path]
        /\ UNCHANGED <<launcher, inflight, today, log, wrote>>

DoListExistingProjects ==
    /\ last' = [NoCall("list_existing_projects") EXCEPT
                    !.out = ListExistingProjects(Root)]
    /\ UNCHANGED <<launcher, inflight, today, BASE_STORAGE, disk, log, wrote>>

DoGetProjectFolder(code, listing) ==
    /\ last' = [NoCall("get_project_folder") EXCEPT
                    !.code = code,
                    !.folder = GetProjectFolder(Root, code, today, listing)]
    /\ UNCHANGED <<launcher, inflight, today, BASE_STORAGE, disk, log, wrote>>

DoProjectCsvPath(code, listing) ==
    \E path \in {ProjectCsvPath(BASE_STORAGE, Root, code, today, listing)} :
        /\ last' = [NoCall("project_csv_path") EXCEPT
                        !.code = code, !.folder = path.folder, !.path = path.base]
        /\ UNCHANGED <<launcher, inflight, today, BASE_STORAGE, disk, log, wrote>>

\* "Submit New Entry" (update_clicked FALSE) or "Update Entry" is pressed;
\* n is st.session_state.attempt_num after a success
DoSubmitForm(update_clicked, code, task_number, attempt_number, meta, fields) ==
    \E r \in {SubmitForm(Root, today, update_clicked, code, task_number,
                         attempt_number, meta, fields)} :
        /\ r.kind = "added" => Len(r.root.entries[r.folder].csv.rows) <= MaxRows
        /\ disk' = [disk EXCEPT ![BASE_STORAGE] = r.root]
        /\ last' = [Called(IF update_clicked THEN "update_entry"
                           ELSE "submit_new_entry",
                           code, meta,
                           FormRunData(task_number, attempt_number, fields), r)
                    EXCEPT !.n = IF r.kind \notin {"added", "updated"} THEN 0
                                 ELSE IF update_clicked THEN attempt_number
                                 ELSE attempt_number + 1]
        /\ log' = IF r.kind \notin {"added", "updated"} THEN log
                  ELSE LogPut(r.folder,
                              Logged(r.folder, meta,
                                     FormRunData(task_number, attempt_number, fields)))
        /\ wrote' = Wrote(code, r)
        /\ UNCHANGED <<launcher, inflight, today, BASE_STORAGE>>

\* the entry is saved with the task and the attempt number that "Auto-fill"
\* has just put into the form
DoSaveAutoFilled ==
    /\ last.op = "next_run_number"
    /\ last.code # <<>>
    /\ DoAppendOrUpdate(last.code, EmptyDict,
                        [task_number    |-> PyStr(last.task),
                         attempt_number |-> PyStr(IntToStr(last.n))])

DoLoadProject(code) ==
    /\ last' = [NoCall("_load_project") EXCEPT
                    !.code = code, !.out = LoadProject(Root, code, today)]
    /\ UNCHANGED <<launcher, inflight, today, BASE_STORAGE, disk, log, wrote>>

DoGetProjectCsvBytes(code) ==
    /\ last' = [NoCall("get_project_csv_bytes") EXCEPT
                    !.code = code, !.out = GetProjectCsvBytes(Root, code, today)]
    /\ UNCHANGED <<launcher, inflight, today, BASE_STORAGE, disk, log, wrote>>

\* append_or_update_project_run whose _write_project is interrupted
DoAppendOrUpdateCut(code, meta, run_data, lines) ==
    \E target \in {UpsertTarget(Root, code, today, meta, run_data)} :
        /\ Len(target) <= MaxRows
        /\ lines \in 0..Len(target)
        /\ \E r \in {WriteProjectCut(Root, code, today, target, lines)} :
              /\ disk' = [disk EXCEPT ![BASE_STORAGE] = r.root]
              /\ last' = Called("append_or_update_project_run", code, meta, run_data, r)
              /\ wrote' = Wrote(code, r)
              /\ UNCHANGED <<launcher, inflight, today, BASE_STORAGE, log>>

\* delete_last_entry whose _write_project is interrupted
DoDeleteLastEntryCut(code, lines) ==
    /\ LoadProject(Root, code, today) # <<>>
    /\ \E target \in {DeleteTarget(Root, code, today)} :
          /\ lines \in 0..Len(target)
          /\ \E r \in {WriteProjectCut(Root, code, today, target, lines)} :
                /\ disk' = [disk EXCEPT ![BASE_STORAGE] = r.root]
                /\ last' = Called("delete_last_entry", code, EmptyDict, EmptyDict, r)
                /\ wrote' = Wrote(code, r)
                /\ UNCHANGED <<launcher, inflight, today, BASE_STORAGE, log>>

\* clear_project_csv whose _write_project is interrupted
DoClearProjectCsvCut(code) ==
    /\ LoadProject(Root, code, today) # <<>>
    /\ \E r \in {WriteProjectCut(Root, code, today, <<>>, 0)} :
          /\ disk' = [disk EXCEPT ![BASE_STORAGE] = r.root]
          /\ last' = Called("clear_project_csv", code, EmptyDict, EmptyDict, r)
          /\ wrote' = Wrote(code, r)
          /\ UNCHANGED <<launcher, inflight, today, BASE_STORAGE, log>>

\* a session enters append_or_update_project_run and runs line 155:
\* rows = _load_project(project_code)
BeginUpsert(p, code, meta, run_data) ==
    /\ inflight[p].pc # "loaded"
    /\ inflight' = [inflight EXCEPT ![p] =
                        [pc |-> "loaded", code |-> code, meta |-> meta,
                         run_data |-> run_data,
                         rows |-> LoadProject(Root, code, today), kind |-> ""]]
    /\ last' = NoCall("begin_upsert")
    /\ UNCHANGED <<launcher, today, BASE_STORAGE, disk, log, wrote>>

\* the session runs the rest of the call, lines 156-175, on the rows it
\* loaded: the loop, _write_project, and the return
FinishUpsert(p) ==
    /\ inflight[p].pc = "loaded"
    /\ \E call \in {inflight[p]} :
       \E rows \in {LocalRows(call, Root, today)} :
       \E r \in {UpsertInto(rows, MatchIndex(rows, call.run_data), Root,
                            call.code, today, call.meta, call.run_data)} :
          /\ disk' = [disk EXCEPT ![BASE_STORAGE] = r.root]
          /\ inflight' = [inflight EXCEPT ![p].pc = "done", ![p].kind = r.kind]
          /\ last' = Called("append_or_update_project_run", call.code,
                            call.meta, call.run_data, r)
          /\ log' = IF r.kind = "error" THEN log
                    ELSE LogPut(r.folder, Logged(r.folder, call.meta, call.run_data))
          /\ wrote' = Wrote(call.code, r)
          /\ UNCHANGED <<launcher, today, BASE_STORAGE>>

\* a session enters delete_last_entry and runs line 201:
\* rows = _load_project(project_code)
BeginDelete(p, code) ==
    /\ inflight[p].pc \in {"idle", "done"}
    /\ inflight' = [inflight EXCEPT ![p] =
                        [pc |-> "loaded_delete", code |-> code, meta |-> EmptyDict,
                         run_data |-> EmptyDict,
                         rows |-> LoadProject(Root, code, today), kind |-> ""]]
    /\ last' = NoCall("begin_delete")
    /\ UNCHANGED <<launcher, today, BASE_STORAGE, disk, log, wrote>>

\* the session runs the rest of delete_last_entry, lines 202-209, on the rows
\* it loaded
FinishDelete(p) ==
    /\ inflight[p].pc = "loaded_delete"
    /\ \E call \in {inflight[p]} :
       \E r \in {DeleteFrom(call.rows, ProjectFolder(Root, call.code, today),
                            Root, call.code, today)} :
          /\ disk' = [disk EXCEPT ![BASE_STORAGE] = r.root]
          /\ inflight' = [inflight EXCEPT ![p].pc = "done", ![p].kind = r.kind]
          /\ last' = Called("delete_last_entry", call.code, EmptyDict, EmptyDict, r)
          /\ log' = IF r.kind # "deleted" THEN log
                    ELSE LogPut(r.folder,
                                [k \in DOMAIN LogAt(r.folder) \ {<<r.task, r.run>>} |->
                                    LogAt(r.folder)[k]])
          /\ wrote' = Wrote(call.code, r)
          /\ UNCHANGED <<launcher, today, BASE_STORAGE>>

\* a session enters clear_project_csv and runs line 214:
\* rows = _load_project(project_code)
BeginClear(p, code) ==
    /\ inflight[p].pc \in {"idle", "done"}
    /\ inflight' = [inflight EXCEPT ![p] =
                        [pc |-> "loaded_clear", code |-> code, meta |-> EmptyDict,
                         run_data |-> EmptyDict,
                         rows |-> LoadProject(Root, code, today), kind |-> ""]]
    /\ last' = NoCall("begin_clear")
    /\ UNCHANGED <<launcher, today, BASE_STORAGE, disk, log, wrote>>

\* the session runs the rest of clear_project_csv, lines 215-218, on the
\* rows it loaded
FinishClear(p) ==
    /\ inflight[p].pc = "loaded_clear"
    /\ \E call \in {inflight[p]} :
       \E r \in {ClearFrom(call.rows, ProjectFolder(Root, call.code, today),
                           Root, call.code, today)} :
          /\ disk' = [disk EXCEPT ![BASE_STORAGE] = r.root]
          /\ inflight' = [inflight EXCEPT ![p].pc = "done", ![p].kind = r.kind]
          /\ last' = Called("clear_project_csv", call.code, EmptyDict, EmptyDict, r)
          /\ log' = IF r.kind # "cleared" THEN log ELSE LogPut(r.folder, EmptyDict)
          /\ wrote' = Wrote(call.code, r)
          /\ UNCHANGED <<launcher, today, BASE_STORAGE>>

\* midnight passes
NextDay ==
    /\ today = D1
    /\ today' = D2
    /\ last' = NoCall("next_day")
    /\ UNCHANGED <<launcher, inflight, BASE_STORAGE, disk, log, wrote>>

\* the process is started again: the module global is set anew, the disk stays
Restart ==
    /\ BASE_STORAGE' = DefaultRoot
    /\ last' = NoCall("restart")
    /\ UNCHANGED <<launcher, inflight, today, disk, log, wrote>>

InitWith(roots) ==
    /\ today = D1
    /\ BASE_STORAGE = DefaultRoot
    /\ disk \in [RootPaths -> roots]
    /\ last = NoCall("init")
    /\ log = EmptyDict
    /\ wrote = [c \in ProjectCodes |-> {}]
    /\ inflight = [p \in Procs |-> Idle]
    /\ launcher = WindowCreated

----------------------------------------------------------------------------
(* Spec: two projects, one code a prefix of the other, over two days and     *)
(* restarts; the storage root starts missing, empty, or holding a plain file *)

Px == <<"P", "_", "x">>

InitRoots ==
    {NoRoot, EmptyRoot, [exists |-> TRUE, entries |-> (Px :> PlainFile)]}

One == <<"1">>

Two == <<"2">>

NoMeta == EmptyDict

ClientA == [client |-> PyStr(<<"A">>)]

RunOf(task, attempt) == [task_number |-> task, attempt_number |-> attempt]

Runs == {RunOf(PyStr(One), PyStr(One)), RunOf(PyStr(One), PyStr(Two))}

Init == InitWith(InitRoots)

Next ==
    \/ \E c \in ProjectCodes, m \in {NoMeta, ClientA} : DoSetupProject(c, m)
    \/ \E c \in ProjectCodes, r \in Runs : DoAppendOrUpdate(c, NoMeta, r)
    \/ \E c \in ProjectCodes : DoDeleteLastEntry(c)
    \/ \E c \in ProjectCodes : DoClearProjectCsv(c)
    \/ NextDay
    \/ Restart

Spec == Init /\ [][Next]_vars

----------------------------------------------------------------------------
(* Terms of the claims *)

\* the directories of the root that are named <code>_<8 digits>: the folders
\* of the project in the layout of the store
OwnFolders(root, code) ==
    {e \in DOMAIN root.entries :
        /\ IsDir(root, e)
        /\ Len(e) = Len(code) + 9
        /\ SubSeq(e, 1, Len(code) + 1) = code \o Underscore
        /\ IsDigitStr(SubSeq(e, Len(code) + 2, Len(e)))}

\* the project has a table in one of its folders
TableExists(root, code) ==
    \E e \in OwnFolders(root, code) : root.entries[e].hascsv

\* the rows the store reads for the project
RowsOf(code) == LoadProject(Root, code, today)

\* the rows the store reads for the project after the step
RowsAfter(code) == LoadProject(Root', code, today')

\* the keys of the rows, in file order
KeysOf(rows) == [i \in 1..Len(rows) |-> Key(rows[i])]

----------------------------------------------------------------------------
(* Claims checked under Spec *)

\* C5: setup_project on a project whose table already exists changes nothing
\* on disk and reports "opened", on any date, after any restart, for any meta.
C5_OpenExisting ==
    [][(last'.op = "setup_project" /\ TableExists(Root, last'.code))
            => (disk' = disk /\ last'.kind = "opened")]_vars

\* C5 happens: a populated table made on the first day is opened on the second.
C5_Witness ==
    /\ last.op = "setup_project"
    /\ last.kind = "opened"
    /\ today = D2
    /\ last.folder = last.code \o Underscore \o D1
    /\ Len(RowsOf(last.code)) >= 1

\* C6: _project_folder returns <code>_<today> only when the root holds no
\* directory of the project, and otherwise the greatest of the project's
\* directories, whatever the date.
C6_ResolveFolder ==
    \A c \in ProjectCodes :
        ProjectFolder(Root, c, today) =
            IF OwnFolders(Root, c) = {}
            THEN c \o Underscore \o today
            ELSE SortedLast(OwnFolders(Root, c))

\* C7: the store creates at most one folder per project code and every write
\* for the code goes to that folder.
C7_OneFolderPerProject ==
    \A c \in ProjectCodes : Cardinality(wrote[c]) <= 1

\* C10: clear_project_csv on a table of n >= 1 rows leaves the file with the
\* header and no data row, reports n, and leaves every folder that is not
\* the project's own untouched.
C10_ClearTable ==
    [][\A rows \in {RowsOf(last'.code)} :
        (last'.op = "clear_project_csv" /\ Len(rows) >= 1)
            => /\ last'.kind = "cleared"
               /\ last'.n = Len(rows)
               /\ IsDir(Root', last'.folder)
               /\ Root'.entries[last'.folder].hascsv
               /\ Root'.entries[last'.folder].csv = CsvOf(<<>>)
               /\ \A e \in DOMAIN Root.entries :
                     e \notin OwnFolders(Root, last'.code)
                         => /\ e \in DOMAIN Root'.entries
                            /\ Root'.entries[e] = Root.entries[e]]_vars

----------------------------------------------------------------------------
(* SpecRows: one project, four keys, rows added, updated, deleted, cleared *)

RowKeys == {RunOf(PyStr(t), PyStr(a)) : t \in {One, Two}, a \in {One, Two}}

InitRows == InitWith({NoRoot, EmptyRoot})

NextRows ==
    \/ \E m \in {NoMeta, ClientA}, r \in RowKeys : DoAppendOrUpdate(P, m, r)
    \/ DoDeleteLastEntry(P)
    \/ DoClearProjectCsv(P)

SpecRows == InitRows /\ [][NextRows]_vars

\* C1: starting from an empty table, after any upsert, delete_last and
\* clear_table calls on one project, no two rows share (task_number,
\* attempt_number), and the table holds exactly one row for each pair that
\* was upserted and not since removed.
C1_OneRowPerKey ==
    \A c \in ProjectCodes :
        \A keys \in {KeysOf(RowsOf(c))} :
            /\ \A i, j \in 1..Len(keys) : i # j => keys[i] # keys[j]
            /\ {keys[i] : i \in 1..Len(keys)}
                  = DOMAIN LogAt(ProjectFolder(Root, c, today))

\* C1 happens: a pair upserted again in a table of three rows.
C1_Witness ==
    /\ last.op = "append_or_update_project_run"
    /\ last.kind = "updated"
    /\ Len(RowsOf(P)) = 3

----------------------------------------------------------------------------
(* SpecMerge: one project, two keys; asset_type comes in meta and in         *)
(* run_data, with empty and non-empty values, keys as str and as int         *)

Text(c) == PyStr(<<c>>)

MergeMetas ==
    {EmptyDict, [asset_type |-> Text("Y")], [asset_type |-> PyStr(<<>>)]}

MergeRuns ==
    {RunOf(PyStr(One), PyStr(a)) : a \in {One, Two}} \cup
    {[task_number |-> PyStr(One), attempt_number |-> PyStr(a), asset_type |-> v] :
        a \in {One, Two}, v \in {PyStr(<<>>), Text("X")}} \cup
    {[task_number |-> PyInt(1), attempt_number |-> PyInt(1),
      asset_type |-> Text("X")]}

InitMerge == InitWith({EmptyRoot})

NextMerge ==
    \/ \E m \in MergeMetas, r \in MergeRuns : DoAppendOrUpdate(P, m, r)
    \/ DoDeleteLastEntry(P)
    \/ DoClearProjectCsv(P)

SpecMerge == InitMerge /\ [][NextMerge]_vars

(* SpecMeta: one project, two keys; client comes in meta alone, empty and    *)
(* non-empty, asset_id in run_data alone                                     *)

MetaMetas ==
    {EmptyDict} \cup {[client |-> v] : v \in {PyStr(<<>>), Text("A"), Text("B")}}

MetaRuns ==
    {RunOf(PyStr(One), PyStr(Two))} \cup
    {[task_number |-> PyStr(One), attempt_number |-> PyStr(One), asset_id |-> v] :
        v \in {Text("X"), Text("Y")}}

NextMeta ==
    \/ \E m \in MetaMetas, r \in MetaRuns : DoAppendOrUpdate(P, m, r)
    \/ DoDeleteLastEntry(P)
    \/ DoClearProjectCsv(P)

SpecMeta == InitMerge /\ [][NextMeta]_vars

\* the step is an upsert call
IsUpsert == last'.op = "append_or_update_project_run"

\* the row of the key of the call before the step; the defaults of a new row
\* when the table had no such row
RowBefore ==
    The({ The({ IF i # 0 THEN rows[i]
                ELSE [h \in HeaderSet |->
                        PyStr(IF h = "project_code" THEN last'.code ELSE <<>>)] :
                i \in {MatchIndex(rows, last'.run_data)} }) :
          rows \in {RowsOf(last'.code)} })

\* the row of the key of the call after the step
RowAfter ==
    The({ rows[MatchIndex(rows, last'.run_data)] :
          rows \in {RowsAfter(last'.code)} })

\* the value of field h of the row before once run_data has overwritten it
AfterRun(before, h) ==
    IF h \in DOMAIN last'.run_data THEN Str(last'.run_data[h])
    ELSE Str(before[h])

\* the rows of the other keys are as they were
OtherRowsKept ==
    \A rows \in {RowsOf(last'.code)}, after \in {RowsAfter(last'.code)} :
        \A i \in 1..Len(rows) :
            Key(rows[i]) # KeyOf(last'.run_data) => after[i] = rows[i]

\* C2 as claimed: after an upsert call every field run_data supplied holds
\* the value of that call.
C2_RunFieldsOverwrite ==
    [][IsUpsert =>
          \A after \in {RowAfter} :
              \A h \in DOMAIN last'.run_data \cap HeaderSet :
                  Str(after[h]) = Str(last'.run_data[h])]_vars

\* C2 amended: after an upsert call every field run_data supplied with a
\* non-empty value holds the text of that value; a field it supplied empty
\* holds meta's value when the call updated a row and meta has the field,
\* and is empty otherwise; the rows of the other keys are as they were.
C2_RunFieldsAmended ==
    [][IsUpsert =>
          /\ \A after \in {RowAfter} :
                \A h \in DOMAIN last'.run_data \cap HeaderSet :
                    Str(after[h]) =
                        IF Truthy(last'.run_data[h]) THEN Str(last'.run_data[h])
                        ELSE IF last'.kind = "updated" /\ h \in DOMAIN last'.meta
                        THEN Str(last'.meta[h])
                        ELSE <<>>
          /\ OtherRowsKept]_vars

\* C2 happens: an update whose run_data gives int keys and a non-empty
\* asset_type while meta gives another asset_type.
C2_Witness ==
    /\ last.op = "append_or_update_project_run"
    /\ last.kind = "updated"
    /\ last.run_data["task_number"] = PyInt(1)
    /\ "asset_type" \in DOMAIN last.meta
    /\ Str(RowsOf(P)[MatchIndex(RowsOf(P), last.run_data)]["asset_type"]) = <<"X">>

\* the six fields the form passes in meta and never in run_data
MetaOnlyFields ==
    {"client", "address", "project_description", "location_lat",
     "location_lon", "arcgis_link"}

HoldsRunValue(before, byRun, h) ==
    /\ AfterRun(before, h) # <<>>
    /\ h \in DOMAIN last'.run_data \/ h \in byRun

----------------------------------------------------------------------------
(* SpecNext: next_run_number over tables whose attempt_number texts are      *)
(* integers, negative, padded with blanks, or no number at all               *)

ScanRuns ==
    {RunOf(PyStr(t), PyStr(a)) :
        t \in {One, Two},
        a \in {<<"2">>, <<"-", "1">>, <<"x">>, <<" ", "3">>}}

ScanTasks == {PyInt(1), PyInt(2), PyInt(3)}

NextNext ==
    \/ \E r \in ScanRuns :
          /\ Len(RowsOf(P)) < MaxScan
          /\ DoAppendOrUpdate(P, NoMeta, r)
    \/ \E t \in ScanTasks, c \in {P, PZ, <<>>} : DoNextRunNumber(t, c)
    \/ DoDeleteLastEntry(P)

SpecNext == InitRows /\ [][NextNext]_vars

\* the integers among the attempt_number texts of the rows of a task
AttemptsOf(code, task_str) ==
    The({ {PyIntOfStr(Str(rows[i]["attempt_number"])).n :
            i \in {j \in 1..Len(rows) :
                      /\ Str(rows[j]["task_number"]) = task_str
                      /\ PyIntOfStr(Str(rows[j]["attempt_number"])).ok}} :
          rows \in {RowsOf(code)} })

Max(S) == CHOOSE m \in S : \A n \in S : n <= m

----------------------------------------------------------------------------
(* SpecRoots: two storage roots, neither inside the other; the first starts *)
(* empty or holding a foreign directory and a plain file, the second is     *)
(* missing; projects are made and filled, the root is switched, and         *)
(* everything is cleared while some removals fail                           *)

X == <<"x">>

ForeignRoot == [exists |-> TRUE, entries |-> (X :> EmptyDir) @@ (Px :> PlainFile)]

Run11 == RunOf(PyStr(One), PyStr(One))

InitRootsSpec ==
    /\ today = D1
    /\ BASE_STORAGE = DefaultRoot
    /\ disk \in {[p \in AllRootPaths |-> IF p = DefaultRoot THEN a ELSE b] :
                    a \in {EmptyRoot, ForeignRoot}, b \in {NoRoot}}
    /\ last = NoCall("init")
    /\ log = EmptyDict
    /\ wrote = [c \in ProjectCodes |-> {}]
    /\ inflight = [p \in Procs |-> Idle]
    /\ launcher = WindowCreated

NextRoots ==
    \/ \E path \in AllRootPaths : DoSetStoragePath(path)
    \/ \E c \in ProjectCodes : DoSetupProject(c, NoMeta)
    \/ DoAppendOrUpdate(P, NoMeta, Run11)
    \/ \E rm \in [DirsOf(Root) -> RmOutcomes] : DoClearAllProjects(rm)

SpecRoots == InitRootsSpec /\ [][NextRoots]_vars

\* C11: clear_all_projects on an existing root does not raise; every
\* directory is removed or reported as a failure, never both; the others
\* are removed whatever fails; the count is the number of directories that
\* are gone; plain files stay.
C11_ClearAllIndependent ==
    [][(last'.op = "clear_all_projects" /\ Root.exists) =>
          \A dirs \in {DirsOf(Root)}, left \in {DOMAIN Root'.entries} :
              /\ last'.kind \in {"all_deleted", "cleared_with_errors"}
              /\ last'.errors = dirs \cap left
              /\ last'.n = Cardinality(dirs \ left)
              /\ last'.kind = "all_deleted" <=> last'.errors = {}
              /\ DOMAIN Root.entries \ dirs \subseteq left]_vars

\* C11 happens: of three directories one could not be removed; the other two
\* are gone and the call reports two removals and the one failure.
C11_Witness ==
    /\ last.op = "clear_all_projects"
    /\ last.kind = "cleared_with_errors"
    /\ last.n = 2
    /\ Cardinality(last.errors) = 1
    /\ DirsOf(Root) = last.errors

\* C17: set_storage_path changes the root in use and nothing on disk; every
\* other call leaves the root in use as it is and changes nothing under a
\* root that is not in use; so the rows read after switching to a root are
\* the rows that were stored under it.
C17_SetRootOnly ==
    [][/\ last'.op = "set_storage_path"
            => /\ BASE_STORAGE' = last'.path
               /\ disk' = disk
               /\ \A c \in ProjectCodes :
                     RowsAfter(c) = LoadProject(disk[last'.path], c, today)
       /\ last'.op # "set_storage_path"
            => /\ BASE_STORAGE' = BASE_STORAGE
               /\ \A p \in AllRootPaths \ {BASE_STORAGE} : disk'[p] = disk[p]]_vars

\* C17 happens: a row was stored under each root, and the call switched back
\* to the first root, whose row is read again.
C17_Witness ==
    /\ last.op = "set_storage_path"
    /\ last.path = DefaultRoot
    /\ BASE_STORAGE = DefaultRoot
    /\ Len(RowsOf(P)) = 1
    /\ Len(LoadProject(disk[OtherRoot], P, today)) = 1
    /\ {w[1] : w \in wrote[P]} = AllRootPaths

----------------------------------------------------------------------------
(* SpecList: the root starts missing or holding any of seven names, all     *)
(* directories or one of them a plain file: dated folders of P (two dates)  *)
(* and of P_Z, a folder with an empty code part, and names that are not     *)
(* dated; project P is opened and the projects are listed                   *)

\* "_20240101": a dated name whose code part is empty
NoCodeD1 == Underscore \o D1

\* "P_2024010": seven digits after the last "_"
PShort == P \o Underscore \o SubSeq(D1, 1, 7)

ListNames ==
    {P \o Underscore \o D1, P \o Underscore \o D2, PZ \o Underscore \o D1,
     Px, NoCodeD1, D1, PShort}

ListRoots ==
    {NoRoot} \cup
    {[exists  |-> TRUE,
      entries |-> [e \in names |-> IF e \in files THEN PlainFile ELSE EmptyDir]] :
        names \in SUBSET ListNames,
        files \in {{}} \cup {{f} : f \in ListNames}}

InitList == InitWith(ListRoots)

NextList ==
    \/ DoListExistingProjects
    \/ DoSetupProject(P, NoMeta)

SpecList == InitList /\ [][NextList]_vars

\* the part of a name before its last nine characters
CodePart(e) == SubSeq(e, 1, Len(e) - 9)

\* the name is some text, "_", and eight digits
HasDateSuffix(e) ==
    /\ Len(e) >= 9
    /\ e[Len(e) - 8] = "_"
    /\ IsDigitStr(SubSeq(e, Len(e) - 7, Len(e)))

\* C18: list_existing_projects returns, each once, exactly the code parts of
\* the directories of the root named <code>_<8 digits>; plain files and
\* names of another form add nothing; a missing root gives the empty list.
C18_ListCodes ==
    last.op = "list_existing_projects" =>
        /\ {last.out[i] : i \in 1..Len(last.out)}
              = {CodePart(e) : e \in {d \in DirsOf(Root) : HasDateSuffix(d)}}
        /\ \A i, j \in 1..Len(last.out) : i # j => last.out[i] # last.out[j]
        /\ ~Root.exists => last.out = <<>>

\* C18 happens: P has two dated folders, P_Z's dated name is a plain file,
\* and directories that are not dated stand beside them: the list is P alone.
C18_Witness ==
    /\ last.op = "list_existing_projects"
    /\ last.out = <<P>>
    /\ {P \o Underscore \o D1, P \o Underscore \o D2, Px, D1, PShort}
          \subseteq DirsOf(Root)
    /\ PZ \o Underscore \o D1 \in DOMAIN Root.entries

----------------------------------------------------------------------------
(* SpecBytes: one project, two keys; asset_id holds the characters that csv *)
(* quotes; rows are added, updated and deleted and the table is exported    *)

ByteTexts ==
    {<<>>, <<"A">>, <<Comma>>, <<Quote>>, <<LF>>, <<CR>>, <<"A", Quote, Comma>>,
     <<CR, LF>>}

ByteRuns ==
    {[task_number |-> PyStr(One), attempt_number |-> PyStr(a), asset_id |-> PyStr(v)] :
        a \in {One, Two}, v \in ByteTexts}

NextBytes ==
    \/ \E r \in ByteRuns : DoAppendOrUpdate(P, NoMeta, r)
    \/ DoDeleteLastEntry(P)
    \/ DoGetProjectCsvBytes(P)

SpecBytes == InitRows /\ [][NextBytes]_vars

\* C13: the rows parsed from the bytes get_project_csv_bytes returns are the
\* rows _load_project returns, in number, order and every field, and the
\* first line of the bytes is the schema in its order.
C13_RoundTrip ==
    last.op = "get_project_csv_bytes" =>
        /\ RowsFromBytes(last.out) = RowsOf(last.code)
        /\ SubSeq(last.out, 1, 2 * Len(PROJECT_HEADERS) + 1)
              = CsvRecord([i \in 1..Len(PROJECT_HEADERS) |-> <<PROJECT_HEADERS[i]>>], 1)

\* C13 happens: a table of two rows whose asset_id hold a quote and a comma,
\* and a line end, is exported.
C13_Witness ==
    /\ last.op = "get_project_csv_bytes"
    /\ Len(RowsOf(P)) = 2
    /\ Str(RowsOf(P)[1]["asset_id"]) = <<"A", Quote, Comma>>
    /\ Str(RowsOf(P)[2]["asset_id"]) = <<CR, LF>>

----------------------------------------------------------------------------
(* SpecRead: two projects, the code of one a prefix of the other's, two     *)
(* keys; tables are opened, filled, read, exported, scanned, and emptied    *)

Run12 == RunOf(PyStr(One), PyStr(Two))

NextRead ==
    \/ \E c \in ProjectCodes : DoSetupProject(c, NoMeta)
    \/ \E c \in ProjectCodes, r \in {Run11, Run12} : DoAppendOrUpdate(c, NoMeta, r)
    \/ \E c \in ProjectCodes : DoLoadProject(c)
    \/ \E c \in ProjectCodes : DoGetProjectCsvBytes(c)
    \/ \E c \in ProjectCodes : DoNextRunNumber(PyInt(1), c)
    \/ \E c \in ProjectCodes : DoDeleteLastEntry(c)
    \/ \E c \in ProjectCodes : DoClearProjectCsv(c)

SpecRead == InitRows /\ [][NextRead]_vars

\* the rows of the table in the latest of the project's own folders
OwnRows(root, code) ==
    IF OwnFolders(root, code) = {} THEN <<>>
    ELSE The({ IF ~root.entries[folder].hascsv THEN <<>>
               ELSE The({ [i \in 1..Len(root.entries[folder].csv.rows) |->
                            RowOf(col, root.entries[folder].csv.rows[i])] :
                          col \in {ColumnOf(root.entries[folder].csv.header)} }) :
               folder \in {SortedLast(OwnFolders(root, code))} })

\* C12: for a project that has no folder, _load_project returns no rows and
\* get_project_csv_bytes returns the header line alone, and neither changes
\* anything on disk.
C12_NeverOpenedReadsEmpty ==
    [][(/\ last'.op \in {"_load_project", "get_project_csv_bytes"}
        /\ OwnFolders(Root, last'.code) = {})
            => /\ disk' = disk
               /\ last'.op = "_load_project" => last'.out = <<>>
               /\ last'.op = "get_project_csv_bytes"
                    => last'.out = FileBytes(CsvOf(<<>>))]_vars

\* C19: on a project that has no table, next_run_number returns 1,
\* delete_last_entry reports that there is nothing to delete,
\* clear_project_csv that the table is already empty, and none of them
\* changes anything on disk.
C19_MissingTableIsEmpty ==
    [][(/\ last'.op \in {"next_run_number", "delete_last_entry", "clear_project_csv"}
        /\ ~TableExists(Root, last'.code))
            => /\ disk' = disk
               /\ last'.op = "next_run_number" => last'.n = 1
               /\ last'.op = "delete_last_entry" => last'.kind = "no_entries"
               /\ last'.op = "clear_project_csv" => last'.kind = "already_empty"]_vars

\* C15: append_or_update_project_run succeeds; it reports "updated" exactly
\* when the project's table held a row of the key before the call, and
\* "added" otherwise; "added" makes the table one row longer, "updated"
\* leaves its length; on a project without a table the table then holds
\* that one row.
C15_StatusTellsAddFromUpdate ==
    [][IsUpsert =>
          \A before \in {OwnRows(Root, last'.code)},
             after \in {OwnRows(Root', last'.code)} :
              /\ last'.kind \in {"added", "updated"}
              /\ last'.kind = "updated"
                    <=> \E i \in 1..Len(before) :
                            Key(before[i]) = KeyOf(last'.run_data)
              /\ last'.kind = "added" => Len(after) = Len(before) + 1
              /\ last'.kind = "updated" => Len(after) = Len(before)
              /\ ~TableExists(Root, last'.code)
                    => /\ Len(after) = 1
                       /\ Key(after[1]) = KeyOf(last'.run_data)]_vars

----------------------------------------------------------------------------
(* SpecCrash: one project, four keys; a rewrite of the table can be          *)
(* interrupted after any number of lines (a full disk, a kill, a lost power)*)

NextCrash ==
    \/ \E r \in RowKeys : DoAppendOrUpdate(P, NoMeta, r)
    \/ DoDeleteLastEntry(P)
    \/ DoClearProjectCsv(P)
    \/ \E r \in RowKeys, lines \in 0..MaxRows :
          DoAppendOrUpdateCut(P, NoMeta, r, lines)
    \/ \E lines \in 0..MaxRows : DoDeleteLastEntryCut(P, lines)
    \/ DoClearProjectCsvCut(P)

SpecCrash == InitMerge /\ [][NextCrash]_vars

\* the file of the folder, NoCsv standing for no file
FileIn(root, folder) ==
    IF IsDir(root, folder) /\ root.entries[folder].hascsv
    THEN root.entries[folder].csv
    ELSE NoCsv

\* the rows the call of the step set out to write
Target ==
    IF last'.op = "append_or_update_project_run"
    THEN UpsertTarget(Root, last'.code, today, last'.meta, last'.run_data)
    ELSE IF last'.op = "delete_last_entry"
    THEN DeleteTarget(Root, last'.code, today)
    ELSE <<>>

\* C14: after a call that rewrites the table, finished or interrupted, the
\* file holds all of the old contents or all of the new contents.
C14_AllOrNothing ==
    [][last'.op \in {"append_or_update_project_run", "delete_last_entry",
                     "clear_project_csv"} =>
          \A folder \in {ProjectFolder(Root, last'.code, today)} :
              \/ FileIn(Root', folder) = FileIn(Root, folder)
              \/ FileIn(Root', folder) = CsvOf(Target)]_vars

----------------------------------------------------------------------------
(* Claims checked under SpecMerge: the same call made twice *)

\* C16: a call of append_or_update_project_run that repeats the call before
\* it, with the same project code, meta and run_data, leaves the table as
\* the first call left it.
C16_UpsertIdempotent ==
    [][(/\ IsUpsert
        /\ last.op = "append_or_update_project_run"
        /\ last.kind # "error"
        /\ last'.code = last.code
        /\ last'.meta = last.meta
        /\ last'.run_data = last.run_data)
            => disk' = disk]_vars

----------------------------------------------------------------------------
(* SpecRace: two sessions call append_or_update_project_run on one project  *)
(* with three keys; each call loads the table in one step and does the rest *)
(* in another, and the steps of the two sessions interleave                 *)

Run21 == RunOf(PyStr(Two), PyStr(One))

NextRace ==
    \/ \E p \in Procs, r \in {Run11, Run12, Run21} : BeginUpsert(p, P, NoMeta, r)
    \/ \E p \in Procs : FinishUpsert(p)

SpecRace == InitMerge /\ [][NextRace]_vars

\* the elements of a sequence
Range(seq) == {seq[i] : i \in 1..Len(seq)}

\* C20: a call that returns a success status writes the rows it loaded with
\* its own row added or updated: every row of another key that came into
\* the table after the call loaded it is missing after the call's write.
C20_LostUpdate ==
    [][\A p \in Procs :
        (/\ inflight[p].pc = "loaded"
         /\ inflight'[p].pc = "done"
         /\ inflight'[p].kind \in {"added", "updated"})
            => \A before \in {Range(KeysOf(RowsOf(P)))},
                  after \in {Range(KeysOf(RowsAfter(P)))},
                  loaded \in {Range(KeysOf(inflight[p].rows))} :
                    /\ after = loaded \cup {KeyOf(inflight[p].run_data)}
                    /\ \A k \in before \ (loaded \cup {KeyOf(inflight[p].run_data)}) :
                          k \notin after]_vars

\* C20 happens: both sessions loaded the empty table, both calls returned
\* "added" for different keys, and the table holds one row: the row of the
\* first session is missing.
C20_Witness ==
    /\ \A p \in Procs :
          /\ inflight[p].pc = "done"
          /\ inflight[p].kind = "added"
          /\ inflight[p].rows = <<>>
    /\ KeyOf(inflight[1].run_data) # KeyOf(inflight[2].run_data)
    /\ KeysOf(RowsOf(P)) = <<KeyOf(inflight[2].run_data)>>

----------------------------------------------------------------------------
(* SpecAppend: one project, two keys; meta and run_data both carry           *)
(* asset_type, each carries a key that is no schema field, and one meta      *)
(* carries project_code                                                     *)

AppendMetas ==
    {EmptyDict,
     [asset_type |-> Text("Y"), note |-> Text("x")],
     [project_code |-> Text("Q")]}

AppendRuns ==
    {RunOf(PyStr(One), PyStr(a)) : a \in {One, Two}} \cup
    {[task_number |-> PyStr(One), attempt_number |-> PyStr(a),
      asset_type |-> Text("X"), extra |-> Text("x")] : a \in {One, Two}}

NextAppend ==
    \/ \E m \in AppendMetas, r \in AppendRuns : DoAppendOrUpdate(P, m, r)
    \/ DoDeleteLastEntry(P)
    \/ DoClearProjectCsv(P)

SpecAppend == InitMerge /\ [][NextAppend]_vars

\* the text of field h in a row made of the defaults, then meta, then run_data
DefaultsMetaRun(h) ==
    IF h \in DOMAIN last'.run_data THEN Str(last'.run_data[h])
    ELSE IF h \in DOMAIN last'.meta THEN Str(last'.meta[h])
    ELSE IF h = "project_code" THEN last'.code
    ELSE <<>>

\* C21: an upsert whose key no row has reports "added" and appends one row
\* after the rows that were there; each schema field of the new row holds
\* the value of run_data, else of meta, else the default (the project code
\* for project_code, empty otherwise); the line written has the schema's
\* fields only.
C21_AppendNewRow ==
    [][\A rows \in {RowsOf(last'.code)} :
        (IsUpsert /\ KeyOf(last'.run_data) \notin Range(KeysOf(rows)))
            => \A after \in {RowsAfter(last'.code)},
                  file \in {Root'.entries[last'.folder].csv} :
                  /\ last'.kind = "added"
                  /\ Len(after) = Len(rows) + 1
                  /\ SubSeq(after, 1, Len(rows)) = rows
                  /\ \A h \in HeaderSet :
                        Str(after[Len(after)][h]) = DefaultsMetaRun(h)
                  /\ file.header = PROJECT_HEADERS
                  /\ \A i \in 1..Len(file.rows) :
                        Len(file.rows[i]) = Len(PROJECT_HEADERS)]_vars

\* C21 happens: a second row was added by a call whose meta and run_data
\* both gave asset_type and both gave a key outside the schema; the new row
\* is the last one and holds the asset_type of run_data.
C21_Witness ==
    /\ last.op = "append_or_update_project_run"
    /\ last.kind = "added"
    /\ "extra" \in DOMAIN last.run_data
    /\ "note" \in DOMAIN last.meta
    /\ Len(RowsOf(P)) = 2
    /\ Key(RowsOf(P)[2]) = KeyOf(last.run_data)
    /\ Str(RowsOf(P)[2]["asset_type"]) = <<"X">>

----------------------------------------------------------------------------
(* Claims checked under SpecRows: the frame of an update *)

\* C22: an upsert that updates the row of key k leaves the table as long as
\* it was; every row of another key has the same fields at the same index
\* afterwards, and the row of key k stands at the index it had, with key k.
C22_UpdateInPlace ==
    [][(IsUpsert /\ last'.kind = "updated") =>
        \A rows \in {RowsOf(last'.code)}, after \in {RowsAfter(last'.code)},
           k \in {KeyOf(last'.run_data)} :
            /\ Len(after) = Len(rows)
            /\ \A i \in 1..Len(rows) :
                  IF Key(rows[i]) # k THEN after[i] = rows[i]
                  ELSE Key(after[i]) = k
            /\ MatchIndex(after, last'.run_data) = MatchIndex(rows, last'.run_data)
            /\ MatchIndex(rows, last'.run_data) # 0]_vars

\* C22 happens: the first of three rows was updated with a client; it is
\* still the first, and the two rows behind it hold no client.
C22_Witness ==
    /\ last.op = "append_or_update_project_run"
    /\ last.kind = "updated"
    /\ last.meta = ClientA
    /\ Len(RowsOf(P)) = 3
    /\ MatchIndex(RowsOf(P), last.run_data) = 1
    /\ Str(RowsOf(P)[1]["client"]) = <<"A">>
    /\ \A i \in {2, 3} : Str(RowsOf(P)[i]["client"]) = <<>>

----------------------------------------------------------------------------
(* SpecResolve: the folder of a project is asked for, for two codes of which *)
(* one is a prefix of the other, in roots that hold dated folders of both    *)
(* and an entry P_x that is a directory or a plain file; os.listdir returns  *)
(* the entries in any order                                                  *)

ResolveNames == {P \o Underscore \o D1, P \o Underscore \o D2,
                 PZ \o Underscore \o D1, Px}

ResolveRoots ==
    {NoRoot} \cup
    {[exists |-> TRUE, entries |-> [e \in names |-> IF e \in files THEN PlainFile ELSE EmptyDir]] :
        names \in SUBSET ResolveNames, files \in SUBSET {Px}}

InitResolve == InitWith(ResolveRoots)

NextResolve ==
    \/ \E c \in ProjectCodes, l \in Listings(Root) : DoGetProjectFolder(c, l)
    \/ \E c \in ProjectCodes, l \in Listings(Root) : DoProjectCsvPath(c, l)
    \/ \E c \in ProjectCodes : DoSetupProject(c, NoMeta)
    \/ DoListExistingProjects
    \/ NextDay

SpecResolve == InitResolve /\ [][NextResolve]_vars

\* C23: get_project_folder and project_csv_path change nothing on disk and
\* leave the storage root setting alone, and the folder they return is the
\* one every listing order of the same root gives for the same code on the
\* same date.
C23_ResolveIsPureQuery ==
    [][last'.op \in {"get_project_folder", "project_csv_path"} =>
        /\ disk' = disk
        /\ BASE_STORAGE' = BASE_STORAGE
        /\ \A l \in Listings(Root) :
              ListedFolder(Root, last'.code, today, l) = last'.folder
        /\ last'.folder = ProjectFolder(Root, last'.code, today)]_vars

\* C23 happens: the folder of P was asked for in a root holding three
\* directories whose names begin with P_ and the answer names a directory
\* that exists, on the second day.
C23_Witness ==
    /\ last.op = "get_project_folder"
    /\ last.code = P
    /\ today = D2
    /\ Cardinality({e \in DOMAIN Root.entries : StartsWith(e, P \o Underscore)}) >= 3
    /\ IsDir(Root, last.folder)

----------------------------------------------------------------------------
(* SpecKeys: one project; the key of a run is given as str, as int, with a   *)
(* leading zero, and with one part of each type                              *)

ZeroOne == <<"0", "1">>

ZeroTwo == <<"0", "2">>

KeyRuns ==
    {RunOf(PyStr(One), PyStr(Two)),
     RunOf(PyInt(1), PyInt(2)),
     RunOf(PyInt(1), PyStr(Two)),
     RunOf(PyStr(ZeroOne), PyStr(Two)),
     RunOf(PyStr(One), PyStr(ZeroTwo))}

NextKeys ==
    \/ \E m \in {NoMeta, ClientA}, r \in KeyRuns : DoAppendOrUpdate(P, m, r)
    \/ DoDeleteLastEntry(P)
    \/ DoClearProjectCsv(P)

SpecKeys == InitMerge /\ [][NextKeys]_vars

\* the rows whose task_number and attempt_number are, as text, the str() of
\* the two values of the call
SameText(rows, run_data) ==
    {i \in 1..Len(rows) :
        /\ Str(rows[i]["task_number"]) = Str(run_data["task_number"])
        /\ Str(rows[i]["attempt_number"]) = Str(run_data["attempt_number"])}

\* C24: an upsert updates a row exactly when a row holds, as text, the str()
\* of the task and the attempt of the call, and then it is the first such
\* row; otherwise it adds a row holding these texts.  So int 1, 2 finds the
\* row of '1', '2', and '01' or '02' does not.
C24_LookupByText ==
    [][IsUpsert =>
        \A rows \in {RowsOf(last'.code)}, after \in {RowsAfter(last'.code)} :
        \A hits \in {SameText(rows, last'.run_data)} :
            IF hits = {}
            THEN /\ last'.kind = "added"
                 /\ Len(after) = Len(rows) + 1
                 /\ SameText(after, last'.run_data) = {Len(after)}
            ELSE /\ last'.kind = "updated"
                 /\ Len(after) = Len(rows)
                 /\ SameText(after, last'.run_data) = hits]_vars

\* C24 happens: the rows of '1', '2' and '01', '2' and '1', '02' stand side
\* by side, and the call that gave the ints 1 and 2 updated the first.
C24_Witness ==
    /\ last.op = "append_or_update_project_run"
    /\ last.kind = "updated"
    /\ last.run_data = RunOf(PyInt(1), PyInt(2))
    /\ KeysOf(RowsOf(P)) = <<<<One, Two>>, <<ZeroOne, Two>>, <<One, ZeroTwo>>>>
    /\ Str(RowsOf(P)[1]["client"]) = <<"A">>
    /\ Str(RowsOf(P)[2]["client"]) = <<>>

----------------------------------------------------------------------------
(* SpecForm: the entry form is submitted with either button, for no project  *)
(* code and for two codes of which one is a prefix of the other; the last    *)
(* entry is deleted and the table cleared from the page as well              *)

FormCodes == {<<>>} \cup ProjectCodes

FormFields == {[asset_id |-> Text("X")]}

NextForm ==
    \/ \E u \in BOOLEAN, c \in FormCodes, a \in {1, 2}, f \in FormFields :
            DoSubmitForm(u, c, 1, a, NoMeta, f)
    \/ \E c \in ProjectCodes : DoDeleteLastEntry(c)
    \/ \E c \in ProjectCodes : DoClearProjectCsv(c)

SpecForm == InitRows /\ [][NextForm]_vars

\* C25: "Update Entry" for a task and attempt of which the project's table
\* has no row is refused and leaves the disk as it was; for a task and
\* attempt that has a row it leaves the table no longer than it was.
C25_UpdateRefusedWhenMissing ==
    [][(last'.op = "update_entry" /\ last'.code # <<>>) =>
        \A before \in {OwnRows(Root, last'.code)},
           after \in {OwnRows(Root', last'.code)} :
            IF KeyOf(last'.run_data) \notin Range(KeysOf(before))
            THEN last'.kind = "refused" /\ disk' = disk
            ELSE Len(after) <= Len(before)]_vars

----------------------------------------------------------------------------
(* Claims checked under Spec: two projects in one root *)

\* C26: a call of setup_project, append_or_update_project_run,
\* delete_last_entry or clear_project_csv for one project code leaves the
\* folders of the other code and what they hold as they were, and reading
\* the other code returns the rows of its own table only - also when one
\* code is the other followed by an underscore and more text.
C26_ProjectIsolation ==
    [][last'.op \in {"setup_project", "append_or_update_project_run",
                     "delete_last_entry", "clear_project_csv"} =>
        \A c2 \in ProjectCodes \ {last'.code} :
            /\ OwnFolders(Root', c2) = OwnFolders(Root, c2)
            /\ \A e \in OwnFolders(Root, c2) : Root'.entries[e] = Root.entries[e]
            /\ LoadProject(Root', c2, today) = OwnRows(Root', c2)]_vars

----------------------------------------------------------------------------
(* Claims checked under SpecResolve: what setup_project leaves behind *)

\* the name is <code>_<8 digits>
DatedNameOf(code, e) ==
    /\ Len(e) = Len(code) + 9
    /\ SubSeq(e, 1, Len(code) + 1) = code \o Underscore
    /\ IsDigitStr(SubSeq(e, Len(code) + 2, Len(e)))

\* C27: after setup_project(c) returned "created" or "opened",
\* list_existing_projects() holds c and the folder of c is named
\* c_<8 digits>, whatever directories the root held before.
C27_SetupListsProject ==
    [][(last'.op = "setup_project" /\ last'.kind \in {"created", "opened"}) =>
        /\ last'.code \in Range(ListExistingProjects(Root'))
        /\ DatedNameOf(last'.code, ProjectFolder(Root', last'.code, today))]_vars

----------------------------------------------------------------------------
(* SpecFresh: one project, two tasks; rows are saved with attempt numbers    *)
(* typed in (an integer, one padded with a blank, no number) and with the    *)
(* number "Auto-fill" computed                                               *)

FreshRuns ==
    {RunOf(PyStr(t), PyStr(a)) :
        t \in {One, Two}, a \in {<<"2">>, <<" ", "3">>, <<"x">>}}

NextFresh ==
    \/ \E r \in FreshRuns :
          /\ Len(RowsOf(P)) < MaxScan
          /\ DoAppendOrUpdate(P, NoMeta, r)
    \/ \E t \in {PyInt(1), PyInt(2)} : DoNextRunNumber(t, P)
    \/ Len(RowsOf(P)) < MaxScan /\ DoSaveAutoFilled
    \/ DoDeleteLastEntry(P)

SpecFresh == InitRows /\ [][NextFresh]_vars

\* C28: in every table no row of task t holds, as text, the number
\* next_run_number(t, project) returns; an upsert with that key right after
\* the call reports "added" and leaves the rows that were there as they were.
C28_AutoFilledIsFresh ==
    [][\A rows \in {RowsOf(P)} :
        /\ \A t \in {1, 2} :
              <<IntToStr(t), IntToStr(NextRunNumber(Root, today, PyInt(t), P))>>
                  \notin Range(KeysOf(rows))
        /\ (/\ last.op = "next_run_number"
            /\ IsUpsert
            /\ last'.code = last.code
            /\ KeyOf(last'.run_data) = <<last.task, IntToStr(last.n)>>)
              => /\ last'.kind = "added"
                 /\ SubSeq(RowsAfter(P), 1, Len(rows)) = rows]_vars

\* C28 happens: the task has a row of attempt " 3", and the row of attempt 4
\* that "Auto-fill" proposed was added behind it.
C28_Witness ==
    /\ last.op = "append_or_update_project_run"
    /\ last.kind = "added"
    /\ last.run = <<"4">>
    /\ \E i \in 1..Len(RowsOf(P)) :
          Key(RowsOf(P)[i]) = <<last.task, <<" ", "3">>>>
    /\ Key(RowsOf(P)[Len(RowsOf(P))]) = <<last.task, <<"4">>>>

----------------------------------------------------------------------------
(* SpecInterleave: two sessions call append_or_update_project_run,           *)
(* delete_last_entry and clear_project_csv on one project with two keys;     *)
(* each call loads the table in one step and does the rest, its write        *)
(* included, in another, and the steps of the two sessions interleave        *)

NextInterleave ==
    \/ \E p \in Procs, r \in {Run11, Run12} :
          /\ inflight[p].pc \in {"idle", "done"}
          /\ BeginUpsert(p, P, NoMeta, r)
    \/ \E p \in Procs : Len(RowsOf(P)) <= MaxRows /\ FinishUpsert(p)
    \/ \E p \in Procs : BeginDelete(p, P)
    \/ \E p \in Procs : FinishDelete(p)
    \/ \E p \in Procs : BeginClear(p, P)
    \/ \E p \in Procs : FinishClear(p)

SpecInterleave == InitMerge /\ [][NextInterleave]_vars

\* C29: however the load and write steps of concurrent upsert, delete and
\* clear calls on one project interleave, no two rows of the table share
\* (task_number, attempt_number).
C29_KeysStayUnique ==
    \A keys \in {KeysOf(RowsOf(P))} :
        \A i, j \in 1..Len(keys) : i # j => keys[i] # keys[j]

\* C29 happens: both sessions loaded the same two rows; one updated the
\* second row, then the other, deleting from the rows it had loaded, wrote
\* the first row alone: the update is lost and the keys are still distinct.
C29_Witness ==
    /\ inflight[1].pc = "done"
    /\ inflight[1].kind = "updated"
    /\ inflight[2].pc = "done"
    /\ inflight[2].kind = "deleted"
    /\ Len(inflight[1].rows) = 2
    /\ inflight[2].rows = inflight[1].rows
    /\ last.op = "delete_last_entry"
    /\ KeysOf(RowsOf(P)) = <<Key(inflight[1].rows[1])>>
    /\ KeyOf(inflight[1].run_data) = Key(inflight[1].rows[2])

----------------------------------------------------------------------------
(* SpecLauncher: the launcher window from its creation to the exit of the    *)
(* program: the timer fires, the button is clicked, the window is closed,    *)
(* the threads run step by step, the server processes come up and die        *)

storeVars == <<today, BASE_STORAGE, disk, last, log, wrote, inflight>>

\* the timer set in __init__ fires: _start_server
TimerFires ==
    /\ launcher.timer
    /\ ~launcher.closed
    /\ Len(launcher.threads) < MaxStarts
    /\ launcher' = StartServer([launcher EXCEPT !.timer = FALSE])
    /\ UNCHANGED storeVars

\* the Start/Stop button is clicked: _toggle_server
ClickButton ==
    /\ launcher.enabled
    /\ ~launcher.closed
    /\ \E w \in {ToggleServer(launcher)} :
          /\ Len(w.threads) <= MaxStarts
          /\ launcher' = w
    /\ UNCHANGED storeVars

\* the window is closed: closeEvent
CloseEvent ==
    /\ ~launcher.closed
    /\ launcher' = [StopServer(launcher) EXCEPT !.closed = TRUE,
                                                !.event = "closeEvent"]
    /\ UNCHANGED storeVars

\* _ServerThread.run: _kill_port() and the first sleep
ThreadKillPort(t) ==
    /\ ~launcher.exited
    /\ launcher.threads[t].pc = "created"
    /\ launcher' = [KillPort(launcher) EXCEPT !.threads[t].pc = "port_free"]
    /\ UNCHANGED storeVars

\* _ServerThread.run: Popen succeeds; the process goes into _box and
\* _atexit_proc in place of what they held
ThreadPopen(t) ==
    /\ ~launcher.exited
    /\ launcher.threads[t].pc = "port_free"
    /\ \E proc \in {Len(launcher.procs) + 1} :
          launcher' = [launcher EXCEPT !.procs = Append(@, "starting"),
                                       !.proc_box = <<proc>>,
                                       !.atexit_proc = <<proc>>,
                                       !.threads[t] = [pc |-> "spawned",
                                                       proc |-> proc]]
    /\ UNCHANGED storeVars

\* _ServerThread.run: Popen raises; start_fail is emitted
ThreadPopenFails(t) ==
    /\ ~launcher.exited
    /\ launcher.threads[t].pc = "port_free"
    /\ launcher' = [launcher EXCEPT !.threads[t].pc = "emitted_fail"]
    /\ UNCHANGED storeVars

\* _ServerThread.run after the second sleep: started_ok when the process is
\* alive, start_fail when it has exited
ThreadPoll(t) ==
    /\ ~launcher.exited
    /\ launcher.threads[t].pc = "spawned"
    /\ launcher' = [launcher EXCEPT !.threads[t].pc =
                        IF Alive(launcher, launcher.threads[t].proc)
                        THEN "emitted_ok" ELSE "emitted_fail"]
    /\ UNCHANGED storeVars

\* the main thread runs the slot of an emitted signal: _on_started or
\* _on_start_fail
SlotRuns(t) ==
    /\ ~launcher.closed
    /\ launcher.threads[t].pc \in {"emitted_ok", "emitted_fail"}
    /\ launcher' = [launcher EXCEPT
                        !.enabled = TRUE,
                        !.threads[t].pc = "done",
                        !.event = IF launcher.threads[t].pc = "emitted_ok"
                                  THEN "on_started" ELSE "on_start_fail"]
    /\ UNCHANGED storeVars

\* a server process binds PORT; it cannot while another process holds it
ProcListens(proc) ==
    /\ launcher.procs[proc] = "starting"
    /\ \A other \in DOMAIN launcher.procs : launcher.procs[other] # "listening"
    /\ launcher' = [launcher EXCEPT !.procs[proc] = "listening"]
    /\ UNCHANGED storeVars

\* a server process exits by itself: PORT is taken, or it fails
ProcExits(proc) ==
    /\ Alive(launcher, proc)
    /\ launcher' = [launcher EXCEPT !.procs[proc] = "dead"]
    /\ UNCHANGED storeVars

\* app.exec() has returned after the window was closed: sys.exit runs
\* _atexit_cleanup and the threads end with the program
ProgramExits ==
    /\ launcher.closed
    /\ ~launcher.exited
    /\ launcher' = [KillProc(launcher, launcher.atexit_proc) EXCEPT
                        !.exited = TRUE, !.event = "exit"]
    /\ UNCHANGED storeVars

NextLauncher ==
    \/ TimerFires
    \/ ClickButton
    \/ CloseEvent
    \/ \E t \in DOMAIN launcher.threads : ThreadKillPort(t)
    \/ \E t \in DOMAIN launcher.threads : ThreadPopen(t)
    \/ \E t \in DOMAIN launcher.threads : ThreadPopenFails(t)
    \/ \E t \in DOMAIN launcher.threads : ThreadPoll(t)
    \/ \E t \in DOMAIN launcher.threads : SlotRuns(t)
    \/ \E proc \in DOMAIN launcher.procs : ProcListens(proc)
    \/ \E proc \in DOMAIN launcher.procs : ProcExits(proc)
    \/ ProgramExits

SpecLauncher == InitMerge /\ [][NextLauncher]_vars

\* the runs of _ServerThread that have emitted neither started_ok nor
\* start_fail
InFlight ==
    {t \in DOMAIN launcher.threads :
        launcher.threads[t].pc \in {"created", "port_free", "spawned"}}

\* C30: at most one run of _ServerThread is in flight at any time, and once
\* _stop_server or closeEvent has run and until the next start, _proc_box
\* is empty and no server process of the launcher is alive.
C30_OneStartInFlight ==
    /\ Cardinality(InFlight) <= 1
    /\ launcher.event \in {"stop_server", "closeEvent", "exit"}
          => /\ launcher.proc_box = <<>>
             /\ \A proc \in DOMAIN launcher.procs : ~Alive(launcher, proc)

====
